---------------------------- MODULE Spec2Model ----------------------------
(***************************************************************************)
(* Model of the ASR orchestrator (backend/src/orchestrator.py).            *)
(*                                                                         *)
(* SpecDispatch  : one POST /transcribe request: transcribe_parallel with  *)
(*                 the health probes and the transcription calls of the    *)
(*                 two asyncio.gather barriers settling in any order, and  *)
(*                 the endpoint's answer.                                  *)
(* SpecConsensus : one POST /transcribe-consensus request: the dispatch    *)
(*                 (probes and calls settling in any order) followed by    *)
(*                 execute_consensus_pipeline and the endpoint's           *)
(*                 post-processing.                                        *)
(* SpecParticles : one POST /transcribe-with-particles request.            *)
(* SpecConcurrent: two transcribe_parallel calls interleaved on the one    *)
(*                 orchestrator instance.                                  *)
(* SpecUpload    : one POST /transcribe request whose file name the        *)
(*                 validating backends accept or reject.                   *)
(* SpecPipeline  : one request to either of the two pipeline endpoints.    *)
(* LiveDispatch, LiveConsensus, LivePipeline : SpecDispatch, SpecConsensus *)
(*                 and SpecPipeline with weak fairness on the steps of an  *)
(*                 accepted request.                                       *)
(*                                                                         *)
(* Wall-clock fields (timestamp, processing_time, total_processing_time)   *)
(* and the opaque model_info / diagnostics payloads are left out of the    *)
(* records: no modelled branch reads them.                                 *)
(***************************************************************************)
EXTENDS Integers, Sequences, FiniteSets, TLC

VARIABLES
    pc,             \* position of the request inside the handler
    request,        \* the `models` argument: [given, list] (Optional[List[str]])
    models,         \* transcribe_parallel: `models` after the None default
    probe,          \* in-flight health probes: pending, or the outcome seen
    health_checks,  \* transcribe_parallel: gather results of the probes
    healthy_models, \* transcribe_parallel: healthy_models
    call,           \* in-flight transcription calls: pending, or the outcome
    task,           \* gather results of transcribe_with_service
    callLog,        \* backend names a transcription POST was sent to, in order
    ret,            \* what transcribe_parallel gave its caller
    gemini_api_key, \* ASROrchestrator: is GEMINI_API_KEY configured
    tavily_api_key, \* ASROrchestrator: is TAVILY_API_KEY configured
    ground_truth,   \* /transcribe-consensus: the ground_truth form field
    inflight,       \* the external call the pipeline is awaiting, if any
    step_result,    \* the dict the last call_gemini_api returned, until read
    genLog,         \* stages a generation POST was sent for, in order
    stageLog,       \* per stage that read its result: how the call ended
    searchLog,      \* queries a web-search POST was sent for, in order
    consensus_data, \* execute_consensus_pipeline: consensus_data
    search_data,    \* execute_consensus_pipeline: search_data
    search_results, \* execute_consensus_pipeline: search_results
    validated_data, \* execute_consensus_pipeline: validated_data
    response,       \* what the endpoint answered
    cached_consensus,       \* transcribe_with_particles: cached_consensus
    parsed_human_particles, \* transcribe_with_particles: parsed_human_particles
    accent_hint,            \* transcribe_with_particles: accent_hint
    allosaurus_timing,      \* transcribe_with_particles: allosaurus_timing
    ipa_interpretation,     \* transcribe_with_particles: ipa_interpretation
    particle_data,          \* transcribe_with_particles: particle_data
    final_data,             \* transcribe_with_particles: final_data
    other,          \* a second transcribe_parallel call running concurrently
    transcriber,    \* WhisperTranscriber.transcribe: argument, model, result
    health_results, \* GET /health: health_results
    model_ready     \* the model_ready flag of each backend service

dispatchVars ==
    <<pc, request, models, probe, health_checks, healthy_models, call, task,
      callLog, ret>>

pipelineVars ==
    <<gemini_api_key, tavily_api_key, ground_truth, inflight, step_result,
      genLog, stageLog, searchLog, consensus_data, search_data, search_results,
      validated_data, response>>

particleVars ==
    <<cached_consensus, parsed_human_particles, accent_hint, allosaurus_timing,
      ipa_interpretation, particle_data, final_data>>

peerVars == <<other>>

serviceVars == <<transcriber, health_results, model_ready>>

vars == <<dispatchVars, pipelineVars, particleVars, peerVars, serviceVars>>

-----------------------------------------------------------------------------
(* Generic helpers *)

Range(s) == {s[i] : i \in DOMAIN s}

\* dict.get(key, default)
Get(d, k, default) == IF k \in DOMAIN d THEN d[k] ELSE default

\* [x for x in s if Test(x)] over positions: the sub-sequence of s at the
\* positions p for which keep[p] holds.
RECURSIVE SelectAt(_, _, _)
SelectAt(s, keep, i) ==
    IF i > Len(s) THEN <<>>
    ELSE (IF keep[i] THEN <<s[i]>> ELSE <<>>) \o SelectAt(s, keep, i + 1)

Pending == [kind |-> "pending"]

\* `{}`
EmptyDict == <<>>

\* an Optional[str] form field that was not sent
NoGroundTruth == [given |-> FALSE, text |-> ""]

\* None
NoneValue == [given |-> FALSE]

\* no /transcribe-with-particles request has been read
ParticleVarsIdle ==
    /\ cached_consensus = EmptyDict
    /\ parsed_human_particles = NoneValue
    /\ accent_hint = NoneValue
    /\ allosaurus_timing = <<>>
    /\ ipa_interpretation = EmptyDict
    /\ particle_data = EmptyDict
    /\ final_data = EmptyDict

-----------------------------------------------------------------------------
(* Bounds and input domains *)

\* longest explicit `models` list a request carries
MaxModels == 2

\* names an explicit `models` list draws from: two registry keys and one
\* name that is not registered
RequestNames == {"whisper", "allosaurus", "nosuch"}

\* transcripts a backend may answer with
Transcripts == {"hello world", "hello word"}

RECURSIVE SeqsUpTo(_, _)
SeqsUpTo(S, n) ==
    IF n = 0 THEN {<<>>}
    ELSE LET shorter == SeqsUpTo(S, n - 1)
         IN  shorter \cup {Append(s, x) : s \in {t \in shorter : Len(t) = n - 1}, x \in S}

\* the `models` argument of a request: None, or an explicit list
Requests ==
    {[given |-> FALSE, list |-> <<>>]}
        \cup {[given |-> TRUE, list |-> l] : l \in SeqsUpTo(RequestNames, MaxModels)}

-----------------------------------------------------------------------------
(* ASROrchestrator.__init__: the service registry *)

ServiceTimeout == 120

\* keys of self.model_services, in insertion order
ModelServiceKeys ==
    <<"whisper", "wav2vec", "moonshine", "mesolitica", "vosk", "allosaurus">>

model_services ==
    [m \in Range(ModelServiceKeys) |->
        [endpoint |-> "/transcribe", timeout |-> ServiceTimeout]]

-----------------------------------------------------------------------------
(* External collaborators: what a backend can answer *)

\* GET {url}/health
ProbeOutcomes ==
    {[kind |-> "response", status |-> 200],
     [kind |-> "response", status |-> 503],
     [kind |-> "connect_error"],
     [kind |-> "timeout"]}

\* POST {url}/transcribe: a 200 reply with or without the transcription
\* field, an HTTP error, the per-call timeout, a transport exception
CallOutcomes ==
    {[kind |-> "response", status |-> 200,
      body |-> [transcription |-> t, processing_time |-> 1]] : t \in Transcripts}
    \cup
    {[kind |-> "response", status |-> 200, body |-> [processing_time |-> 1]],
     [kind |-> "response", status |-> 500, text |-> "Internal Server Error"],
     [kind |-> "timeout"],
     [kind |-> "exception", message |-> "Cannot connect to host"]}

-----------------------------------------------------------------------------
(* ASROrchestrator.health_check_service *)

\* A probe that takes any HTTP answer as a sign of life.
HealthCheckServiceAnyResponse(model_name, o) ==
    IF model_name \in DOMAIN model_services /\ o.kind = "response"
    THEN [kind |-> "return", value |-> TRUE]
    ELSE [kind |-> "return", value |-> FALSE]

\* The value the coroutine hands to asyncio.gather: it returns
\* `response.status == 200`, and every exception of the GET (connection
\* error, timeout, unknown model name) is caught and turned into False.
HealthCheckService(model_name, o) ==
    IF model_name \in DOMAIN model_services /\ o.kind = "response"
    THEN [kind |-> "return", value |-> (o.status = 200)]
    ELSE [kind |-> "return", value |-> FALSE]

\* A filter that only looks at the type of the gathered value.
IsHealthyAnyBool(h) == h.kind = "return"

\* `isinstance(is_healthy, bool) and is_healthy`
IsHealthy(h) == h.kind = "return" /\ h.value

-----------------------------------------------------------------------------
(* ASROrchestrator.transcribe_with_service *)

\* An error dict that still carries a (blank) transcription field.
ErrorResultWithTranscription(model_name, message) ==
    [model |-> model_name, status |-> "error", error |-> message,
     transcription |-> ""]

ErrorResult(model_name, message) ==
    [model |-> model_name, status |-> "error", error |-> message]

\* The standardized result dict for one backend call.
TranscribeWithService(model_name, o) ==
    IF model_name \notin DOMAIN model_services
    THEN [kind |-> "raise", exc |-> "KeyError"]
    ELSE [kind |-> "return",
          value |->
            IF o.kind = "response"
            THEN IF o.status = 200
                 THEN [model |-> model_name,
                       status |-> "success",
                       transcription |-> Get(o.body, "transcription", "")]
                 ELSE ErrorResult(model_name,
                        "HTTP " \o ToString(o.status) \o ": " \o o.text)
            ELSE IF o.kind = "timeout"
            THEN ErrorResult(model_name,
                   "Request timeout after "
                     \o ToString(model_services[model_name].timeout)
                     \o " seconds")
            ELSE ErrorResult(model_name, o.message)]

-----------------------------------------------------------------------------
(* ASROrchestrator.transcribe_parallel *)

\* `models = list(self.model_services.keys())` when models is None
ResolveModels(r) == IF r.given THEN r.list ELSE ModelServiceKeys

\* A validation that only looks at the first name of the list.
InvalidModelsFirstOnly(ms) ==
    IF ms # <<>> /\ ms[1] \notin DOMAIN model_services THEN <<ms[1]>> ELSE <<>>

\* `[m for m in models if m not in self.model_services]`
InvalidModels(ms) == SelectSeq(ms, LAMBDA m : m \notin DOMAIN model_services)

\* `[models[i] for i, is_healthy in enumerate(health_checks) if ...]`
HealthyModels(ms, checks) ==
    SelectAt(ms, [i \in DOMAIN checks |-> IsHealthy(checks[i])], 1)

\* A wait that returns as soon as one awaitable has a result.
GatherDoneFirstCompleted(ts) == ts = <<>> \/ \E i \in DOMAIN ts : ts[i] # Pending

\* asyncio.gather returns once every awaitable has a result
GatherDone(ts) == \A i \in DOMAIN ts : ts[i] # Pending

\* `health_checks = await asyncio.gather(..., return_exceptions=True)`: the
\* probe at position i finishes with r; the other probes are left as they are
GatherHealthChecks(ts, i, r) == [ts EXCEPT ![i] = r]

\* A gather that never takes note of a call that ended in an error.
GatherTranscriptionsAwaitSuccess(ts, i, r) ==
    IF r.kind = "return" /\ r.value.status = "success"
    THEN [ts EXCEPT ![i] = r]
    ELSE ts

\* A gather that gives up the remaining calls as soon as one call has failed.
GatherTranscriptionsCancelOnError(ts, i, r) ==
    IF r.kind = "return" /\ r.value.status = "success"
    THEN [ts EXCEPT ![i] = r]
    ELSE [j \in DOMAIN ts |->
            IF j = i THEN r
            ELSE IF ts[j] = Pending
                 THEN [kind |-> "raise", exc |-> "CancelledError"]
                 ELSE ts[j]]

\* `transcription_results = await asyncio.gather(*tasks,
\* return_exceptions=True)`: the call at position i finishes with r; the
\* other calls stay in flight
GatherTranscriptions(ts, i, r) == [ts EXCEPT ![i] = r]

\* A loop that lets one failed call turn the whole batch into errors.
ProcessResultsAbortOnError(healthy, trs, i, acc) ==
    LET failed == {j \in DOMAIN trs :
                     trs[j].kind = "raise" \/ trs[j].value.status = "error"}
    IN  [b \in Range(healthy) |->
            LET j == CHOOSE k \in DOMAIN healthy :
                        /\ healthy[k] = b
                        /\ \A l \in DOMAIN healthy : l > k => healthy[l] # b
            IN  IF failed = {}
                THEN trs[j].value
                ELSE [model |-> b, status |-> "error", error |-> "batch failed"]]

\* A loop that keeps only the successful results.
RECURSIVE ProcessResultsSkipErrors(_, _, _, _)
ProcessResultsSkipErrors(healthy, trs, i, acc) ==
    IF i > Len(healthy) THEN acc
    ELSE ProcessResultsSkipErrors(healthy, trs, i + 1,
            IF trs[i].kind = "return" /\ trs[i].value.status = "success"
            THEN (healthy[i] :> trs[i].value) @@ acc
            ELSE acc)

\* The `for i, result in enumerate(transcription_results)` loop: later
\* positions overwrite earlier ones under the same backend name.
RECURSIVE ProcessResults(_, _, _, _)
ProcessResults(healthy, trs, i, acc) ==
    IF i > Len(healthy) THEN acc
    ELSE LET model_name == healthy[i]
             entry == IF trs[i].kind = "raise"
                      THEN ErrorResult(model_name, trs[i].exc)
                      ELSE trs[i].value
         IN  ProcessResults(healthy, trs, i + 1, (model_name :> entry) @@ acc)

\* A count of every result, whatever its status.
SuccessfulModelsCountAll(res) == Cardinality(DOMAIN res)

\* `len([r for r in results.values() if r["status"] == "success"])`
SuccessfulModels(res) ==
    Cardinality({b \in DOMAIN res : res[b].status = "success"})

NoHealthyMessage == "No healthy ASR services available"

EmptyEnvelope(ms) ==
    [models_requested |-> ms,
     healthy_models |-> <<>>,
     successful_models |-> 0,
     error |-> NoHealthyMessage,
     results |-> <<>>]

Envelope(ms, healthy, res) ==
    [models_requested |-> ms,
     healthy_models |-> healthy,
     successful_models |-> SuccessfulModels(res),
     results |-> res]

NoReturn == [kind |-> "none"]

\* A results dict kept across calls instead of created per call.
ResultsAtEntryShared(collected_elsewhere) == collected_elsewhere

\* `results = {}`: every call of transcribe_parallel starts from a dict of
\* its own, whatever another call has collected
ResultsAtEntry(collected_elsewhere) == EmptyDict

\* the results dict of a call that has returned its envelope
ReturnedResults(r) ==
    IF r.kind = "return" THEN r.value.results ELSE EmptyDict

\* no transcriber call, no /health request, no backend service started
ServiceVarsIdle ==
    /\ transcriber = NoneValue
    /\ health_results = EmptyDict
    /\ model_ready = [b \in Range(ModelServiceKeys) |-> FALSE]

\* the locals of a transcribe_parallel call that has not started
IdleCall ==
    [pc |-> "idle", request |-> [given |-> FALSE, list |-> <<>>],
     models |-> <<>>, health_checks |-> <<>>, healthy_models |-> <<>>,
     call |-> <<>>, task |-> <<>>, ret |-> NoReturn]

InitDispatch ==
    /\ pc = "idle"
    /\ request = [given |-> FALSE, list |-> <<>>]
    /\ models = <<>>
    /\ probe = <<>>
    /\ health_checks = <<>>
    /\ healthy_models = <<>>
    /\ call = <<>>
    /\ task = <<>>
    /\ callLog = <<>>
    /\ ret = NoReturn
    /\ gemini_api_key = TRUE
    /\ tavily_api_key = TRUE
    /\ ground_truth = NoGroundTruth
    /\ inflight = "none"
    /\ step_result = NoReturn
    /\ genLog = <<>>
    /\ stageLog = <<>>
    /\ searchLog = <<>>
    /\ consensus_data = EmptyDict
    /\ search_data = EmptyDict
    /\ search_results = <<>>
    /\ validated_data = EmptyDict
    /\ response = NoReturn
    /\ ParticleVarsIdle
    /\ other = IdleCall
    /\ ServiceVarsIdle

\* Entry of transcribe_parallel with valid models: the probes are started.
StartDispatch(r) ==
    /\ pc = "idle"
    /\ InvalidModels(ResolveModels(r)) = <<>>
    /\ request' = r
    /\ models' = ResolveModels(r)
    /\ probe' = [i \in 1..Len(ResolveModels(r)) |-> Pending]
    /\ health_checks' = [i \in 1..Len(ResolveModels(r)) |-> Pending]
    /\ pc' = "health"
    /\ UNCHANGED <<pipelineVars, particleVars, peerVars, serviceVars>>
    /\ UNCHANGED <<healthy_models, call, task, callLog, ret>>

\* Entry of transcribe_parallel with an unregistered name: ValueError.
RejectInvalid(r) ==
    /\ pc = "idle"
    /\ InvalidModels(ResolveModels(r)) # <<>>
    /\ request' = r
    /\ models' = ResolveModels(r)
    /\ ret' = [kind |-> "raise", exc |-> "ValueError"]
    /\ pc' = "raised"
    /\ UNCHANGED <<pipelineVars, particleVars, peerVars, serviceVars>>
    /\ UNCHANGED <<probe, health_checks, healthy_models, call, task, callLog>>

\* One health probe settles.
ProbeSettle(i, o) ==
    /\ pc = "health"
    /\ probe[i] = Pending
    /\ probe' = [probe EXCEPT ![i] = o]
    /\ health_checks' = GatherHealthChecks(health_checks, i, HealthCheckService(models[i], o))
    /\ UNCHANGED <<pipelineVars, particleVars, peerVars, serviceVars>>
    /\ UNCHANGED <<pc, request, models, healthy_models, call, task, callLog, ret>>

\* The probe gather returned and nothing is healthy: the early return.
NoHealthyBackends ==
    /\ pc = "health"
    /\ GatherDone(health_checks)
    /\ HealthyModels(models, health_checks) = <<>>
    /\ healthy_models' = <<>>
    /\ probe' = <<>>
    /\ ret' = [kind |-> "return", value |-> EmptyEnvelope(models)]
    /\ pc' = "returned"
    /\ UNCHANGED <<pipelineVars, particleVars, peerVars, serviceVars>>
    /\ UNCHANGED <<request, models, health_checks, call, task, callLog>>

\* The probe gather returned: one transcription call per healthy entry.
IssueTranscriptions ==
    /\ pc = "health"
    /\ GatherDone(health_checks)
    /\ HealthyModels(models, health_checks) # <<>>
    /\ healthy_models' = HealthyModels(models, health_checks)
    /\ probe' = <<>>
    /\ call' = [i \in 1..Len(healthy_models') |-> Pending]
    /\ task' = [i \in 1..Len(healthy_models') |-> Pending]
    /\ callLog' = callLog \o healthy_models'
    /\ pc' = "transcribe"
    /\ UNCHANGED <<pipelineVars, particleVars, peerVars, serviceVars>>
    /\ UNCHANGED <<request, models, health_checks, ret>>

\* One transcription call settles.
CallSettle(i, o) ==
    /\ pc = "transcribe"
    /\ call[i] = Pending
    /\ call' = [call EXCEPT ![i] = o]
    /\ task' = GatherTranscriptions(task, i, TranscribeWithService(healthy_models[i], o))
    /\ UNCHANGED <<pipelineVars, particleVars, peerVars, serviceVars>>
    /\ UNCHANGED <<pc, request, models, probe, health_checks, healthy_models,
                   callLog, ret>>

\* The call gather returned: results are processed, the envelope returned.
ReturnEnvelope ==
    /\ pc = "transcribe"
    /\ GatherDone(task)
    /\ ret' = [kind |-> "return",
               value |->
                 Envelope(models, healthy_models,
                          ProcessResults(healthy_models, task, 1,
                              ResultsAtEntry(ReturnedResults(other.ret))))]
    /\ pc' = "returned"
    /\ UNCHANGED <<pipelineVars, particleVars, peerVars, serviceVars>>
    /\ UNCHANGED <<request, models, probe, health_checks, healthy_models, call,
                   task, callLog>>

-----------------------------------------------------------------------------
(* POST /transcribe *)

Http(code, body) == [kind |-> "http", code |-> code, body |-> body]

\* `raise HTTPException(status_code=500, detail=str(e))`
Http500(exc) == [kind |-> "http", code |-> 500, detail |-> exc]

\* An endpoint that lists every backend of the envelope, failed ones with
\* an empty transcript.
TranscribeAudioAllResults(r) ==
    IF r.kind = "raise" THEN Http500(r.exc)
    ELSE Http(200,
              [m \in DOMAIN r.value.results
                  |-> Get(r.value.results[m], "transcription", "")])

\* An endpoint that answers 500 as soon as one backend result is an error.
TranscribeAudioFailOnBackendError(r) ==
    IF r.kind = "raise" THEN Http500(r.exc)
    ELSE IF \E b \in DOMAIN r.value.results :
               Get(r.value.results[b], "status", "") = "error"
         THEN Http500("backend error")
         ELSE Http(200,
                   [m \in DOMAIN r.value.results
                       |-> Get(r.value.results[m], "transcription", "")])

\* the answer of transcribe_audio: the clean transcriptions of the
\* successful backends, or HTTP 500 for anything raised
TranscribeAudio(r) ==
    IF r.kind = "raise" THEN Http500(r.exc)
    ELSE Http(200,
              [m \in {b \in DOMAIN r.value.results :
                        Get(r.value.results[b], "status", "") = "success"}
                  |-> Get(r.value.results[m], "transcription", "")])

\* transcribe_parallel has returned or raised: the endpoint answers.
TranscribeAudioAnswer ==
    /\ pc \in {"returned", "raised"}
    /\ response' = TranscribeAudio(ret)
    /\ pc' = "done"
    /\ UNCHANGED <<request, models, probe, health_checks, healthy_models, call,
                   task, callLog, ret>>
    /\ UNCHANGED <<gemini_api_key, tavily_api_key, ground_truth, inflight,
                   step_result, genLog, stageLog, searchLog, consensus_data,
                   search_data, search_results, validated_data>>
    /\ UNCHANGED <<particleVars, peerVars, serviceVars>>

NextDispatch ==
    \/ \E r \in Requests : StartDispatch(r)
    \/ \E r \in Requests : RejectInvalid(r)
    \/ \E i \in DOMAIN probe, o \in ProbeOutcomes : ProbeSettle(i, o)
    \/ NoHealthyBackends
    \/ IssueTranscriptions
    \/ \E i \in DOMAIN call, o \in CallOutcomes : CallSettle(i, o)
    \/ ReturnEnvelope
    \/ TranscribeAudioAnswer

SpecDispatch == InitDispatch /\ [][NextDispatch]_vars

\* the steps of an accepted /transcribe request: every probe and call
\* settles (reply, error or its own timeout) and the code goes on
DispatchProgress ==
    \/ \E i \in DOMAIN probe, o \in ProbeOutcomes : ProbeSettle(i, o)
    \/ NoHealthyBackends
    \/ IssueTranscriptions
    \/ \E i \in DOMAIN call, o \in CallOutcomes : CallSettle(i, o)
    \/ ReturnEnvelope
    \/ TranscribeAudioAnswer

LiveDispatch == SpecDispatch /\ WF_vars(DispatchProgress)

-----------------------------------------------------------------------------
(* asr_utils/service_utils.py: the upload check of the backend services *)

\* str.lower(), per character, on the characters the file names use
Lower(c) ==
    CASE c = "W" -> "w"
      [] c = "A" -> "a"
      [] c = "V" -> "v"
      [] c = "M" -> "m"
      [] c = "P" -> "p"
      [] OTHER -> c

LowerAll(name) == [i \in DOMAIN name |-> Lower(name[i])]

\* str.endswith(suffix)
EndsWith(name, suffix) ==
    /\ Len(name) >= Len(suffix)
    /\ SubSeq(name, Len(name) - Len(suffix) + 1, Len(name)) = suffix

\* the default allowed_formats
AllowedFormats ==
    {<<".", "m", "p", "3">>, <<".", "w", "a", "v">>,
     <<".", "f", "l", "a", "c">>, <<".", "m", "4", "a">>}

UnsupportedFormat ==
    [kind |-> "response", status |-> 400,
     text |-> "Unsupported audio format. Allowed: .mp3, .wav, .flac, .m4a"]

\* validate_audio_file: HTTP 400 unless the lower-cased file name ends with
\* an allowed format
ValidateAudioFile(filename) ==
    IF \E f \in AllowedFormats : EndsWith(LowerAll(filename), f)
    THEN [kind |-> "return"]
    ELSE [kind |-> "raise", reply |-> UnsupportedFormat]

\* the backends whose /transcribe handler calls validate_audio_file: all
\* six services do, with the default formats
ValidatingServices ==
    {"whisper", "wav2vec", "moonshine", "mesolitica", "vosk", "allosaurus"}

\* file names of an upload, as character sequences: a.wav, a.WAV, a.ogg,
\* a.mp3 and wav
Filenames ==
    {<<"a", ".", "w", "a", "v">>, <<"a", ".", "W", "A", "V">>,
     <<"a", ".", "o", "g", "g">>, <<"a", ".", "m", "p", "3">>,
     <<"w", "a", "v">>}

\* backends an upload request names
UploadModels == {"whisper", "wav2vec"}

\* an upload: an explicit models list and the name of the file
UploadRequests ==
    {[given |-> TRUE, list |-> l, filename |-> f] :
        l \in SeqsUpTo(UploadModels, MaxModels) \ {<<>>}, f \in Filenames}

\* what the backend can answer to the POST of the file: a validating
\* service answers 400 to a file name it rejects (or is not reached at
\* all); a file it accepts is transcribed like any other
ServiceReplies(model_name, filename) ==
    IF model_name \in ValidatingServices
         /\ ValidateAudioFile(filename).kind = "raise"
    THEN {ValidateAudioFile(filename).reply}
            \cup {o \in CallOutcomes : o.kind # "response"}
    ELSE CallOutcomes

NextUpload ==
    \/ \E r \in UploadRequests : StartDispatch(r)
    \/ \E i \in DOMAIN probe, o \in ProbeOutcomes : ProbeSettle(i, o)
    \/ NoHealthyBackends
    \/ IssueTranscriptions
    \/ \E i \in DOMAIN call :
          \E o \in ServiceReplies(healthy_models[i], request.filename) :
              CallSettle(i, o)
    \/ ReturnEnvelope
    \/ TranscribeAudioAnswer

SpecUpload == InitDispatch /\ [][NextUpload]_vars

-----------------------------------------------------------------------------
(* The readiness flag of a backend service *)

\* the services whose processes are followed
ReadinessBackends == {"whisper", "vosk"}

\* requests that name followed services only
ReadinessRequests ==
    {[given |-> TRUE, list |-> l] :
        l \in SeqsUpTo(ReadinessBackends, MaxModels) \ {<<>>}}

\* detail of the 503 each /transcribe handler raises while not ready
NotReadyDetail ==
    [b \in Range(ModelServiceKeys) |->
        CASE b = "whisper" -> "Whisper model not ready"
          [] b = "wav2vec" -> "Wav2Vec model not ready"
          [] b = "moonshine" -> "Moonshine model not ready"
          [] b = "mesolitica" -> "Mesolitica model not ready"
          [] b = "vosk" -> "VOSK model not ready"
          [] OTHER -> "Allosaurus model not ready"]

\* `raise HTTPException(status_code=503, detail="... model not ready")`
ModelNotReady(b) ==
    [kind |-> "response", status |-> 503, text |-> NotReadyDetail[b]]

\* GET / of a service: 200 whatever the flag says.
ServiceRoot(ready) == [kind |-> "response", status |-> 200]

\* GET /health of a service: 503 unless model_ready
ServiceHealth(ready) ==
    [kind |-> "response", status |-> IF ready THEN 200 ELSE 503]

\* POST /transcribe of a service: 503 unless model_ready, else the handler
\* runs; the transport can fail either way
ServiceTranscribe(ready, b) ==
    IF ready THEN CallOutcomes
    ELSE {ModelNotReady(b)} \cup {o \in CallOutcomes : o.kind # "response"}

\* startup_event of service b: the model is loaded and the flag set. A load
\* that raises is caught and leaves the flag as it is.
Startup(b) ==
    /\ ~model_ready[b]
    /\ model_ready' = [model_ready EXCEPT ![b] = TRUE]
    /\ UNCHANGED <<dispatchVars, pipelineVars, particleVars, peerVars,
                   transcriber, health_results>>

\* The probe of position i is answered by the service's /health.
ProbeAnswered(i) == ProbeSettle(i, ServiceHealth(model_ready[models[i]]))

\* The probe of position i does not reach the service.
ProbeLost(i) ==
    \E o \in {p \in ProbeOutcomes : p.kind # "response"} : ProbeSettle(i, o)

\* The call of position i settles with what the service answers.
CallAnswered(i) ==
    \E o \in ServiceTranscribe(model_ready[healthy_models[i]],
                                healthy_models[i]) :
        CallSettle(i, o)

NextReadiness ==
    \/ \E b \in ReadinessBackends : Startup(b)
    \/ \E r \in ReadinessRequests : StartDispatch(r)
    \/ \E i \in DOMAIN probe : ProbeAnswered(i)
    \/ \E i \in DOMAIN probe : ProbeLost(i)
    \/ NoHealthyBackends
    \/ IssueTranscriptions
    \/ \E i \in DOMAIN call : CallAnswered(i)
    \/ ReturnEnvelope
    \/ TranscribeAudioAnswer

SpecReadiness == InitDispatch /\ [][NextReadiness]_vars

-----------------------------------------------------------------------------
(* Two transcribe_parallel calls on the one ASROrchestrator instance *)

\* the `models` arguments of the two concurrent requests: explicit lists
ConcurrentRequests == {r \in Requests : r.given}

\* The second call enters transcribe_parallel: ValueError for an
\* unregistered name, else its probes are started.
PeerStartDispatch(r) ==
    /\ other.pc = "idle"
    /\ other' =
          IF InvalidModels(ResolveModels(r)) # <<>>
          THEN [other EXCEPT !.pc = "raised", !.request = r,
                             !.models = ResolveModels(r),
                             !.ret = [kind |-> "raise", exc |-> "ValueError"]]
          ELSE [other EXCEPT !.pc = "health", !.request = r,
                             !.models = ResolveModels(r),
                             !.health_checks =
                                 [i \in 1..Len(ResolveModels(r)) |-> Pending]]
    /\ UNCHANGED <<dispatchVars, pipelineVars, particleVars, serviceVars>>

\* One health probe of the second call settles.
PeerProbeSettle(i, o) ==
    /\ other.pc = "health"
    /\ other.health_checks[i] = Pending
    /\ other' = [other EXCEPT !.health_checks =
                     GatherHealthChecks(@, i,
                                        HealthCheckService(other.models[i], o))]
    /\ UNCHANGED <<dispatchVars, pipelineVars, particleVars, serviceVars>>

\* The probe gather of the second call returned: the early return, or one
\* transcription call per healthy entry, each POST sent through the same
\* transport as the first call's.
PeerIssueTranscriptions ==
    /\ other.pc = "health"
    /\ GatherDone(other.health_checks)
    /\ LET healthy == HealthyModels(other.models, other.health_checks)
       IN  /\ other' =
             IF healthy = <<>>
             THEN [other EXCEPT !.pc = "returned",
                                !.ret = [kind |-> "return",
                                         value |-> EmptyEnvelope(other.models)]]
             ELSE [other EXCEPT !.pc = "transcribe",
                                !.healthy_models = healthy,
                                !.call = [i \in 1..Len(healthy) |-> Pending],
                                !.task = [i \in 1..Len(healthy) |-> Pending]]
           /\ callLog' = callLog \o healthy
    /\ UNCHANGED <<pc, request, models, probe, health_checks, healthy_models,
                   call, task, ret>>
    /\ UNCHANGED <<pipelineVars, particleVars, serviceVars>>

\* One transcription call of the second call settles.
PeerCallSettle(i, o) ==
    /\ other.pc = "transcribe"
    /\ other.call[i] = Pending
    /\ other' = [other EXCEPT
                    !.call[i] = o,
                    !.task = GatherTranscriptions(@, i,
                                TranscribeWithService(other.healthy_models[i], o))]
    /\ UNCHANGED <<dispatchVars, pipelineVars, particleVars, serviceVars>>

\* The call gather of the second call returned: its envelope.
PeerReturnEnvelope ==
    /\ other.pc = "transcribe"
    /\ GatherDone(other.task)
    /\ other' = [other EXCEPT
                    !.pc = "returned",
                    !.ret = [kind |-> "return",
                             value |->
                               Envelope(other.models, other.healthy_models,
                                        ProcessResults(other.healthy_models,
                                            other.task, 1,
                                            ResultsAtEntry(ReturnedResults(ret))))]]
    /\ UNCHANGED <<dispatchVars, pipelineVars, particleVars, serviceVars>>

NextConcurrent ==
    \/ \E r \in ConcurrentRequests : StartDispatch(r)
    \/ \E r \in ConcurrentRequests : RejectInvalid(r)
    \/ \E i \in DOMAIN probe, o \in ProbeOutcomes : ProbeSettle(i, o)
    \/ NoHealthyBackends
    \/ IssueTranscriptions
    \/ \E i \in DOMAIN call, o \in CallOutcomes : CallSettle(i, o)
    \/ ReturnEnvelope
    \/ \E r \in ConcurrentRequests : PeerStartDispatch(r)
    \/ \E i \in DOMAIN other.health_checks, o \in ProbeOutcomes :
          PeerProbeSettle(i, o)
    \/ PeerIssueTranscriptions
    \/ \E i \in DOMAIN other.call, o \in CallOutcomes : PeerCallSettle(i, o)
    \/ PeerReturnEnvelope

SpecConcurrent == InitDispatch /\ [][NextConcurrent]_vars

-----------------------------------------------------------------------------
(* asr_models/whisper/stt_model_whisper.py: WhisperTranscriber.transcribe *)

\* no request is in progress at the orchestrator
NoRequest ==
    /\ pc = "idle"
    /\ request = [given |-> FALSE, list |-> <<>>]
    /\ models = <<>>
    /\ probe = <<>>
    /\ health_checks = <<>>
    /\ healthy_models = <<>>
    /\ call = <<>>
    /\ task = <<>>
    /\ callLog = <<>>
    /\ ret = NoReturn
    /\ gemini_api_key = TRUE
    /\ tavily_api_key = TRUE
    /\ ground_truth = NoGroundTruth
    /\ inflight = "none"
    /\ step_result = NoReturn
    /\ genLog = <<>>
    /\ stageLog = <<>>
    /\ searchLog = <<>>
    /\ consensus_data = EmptyDict
    /\ search_data = EmptyDict
    /\ search_results = <<>>
    /\ validated_data = EmptyDict
    /\ response = NoReturn
    /\ ParticleVarsIdle
    /\ other = IdleCall

\* the audio_file argument: a path as a character sequence (a.wav, a.WAV,
\* a.mp3, a.Mp3, a.ogg, a.flac, wav, a.wav.txt, the empty string), or None
AudioFiles ==
    {[str |-> TRUE, chars |-> c] :
        c \in {<<"a", ".", "w", "a", "v">>, <<"a", ".", "W", "A", "V">>,
               <<"a", ".", "m", "p", "3">>, <<"a", ".", "M", "p", "3">>,
               <<"a", ".", "o", "g", "g">>, <<"a", ".", "f", "l", "a", "c">>,
               <<"w", "a", "v">>,
               <<"a", ".", "w", "a", "v", ".", "t", "x", "t">>, <<>>}}
    \cup {[str |-> FALSE]}

\* what self.model.transcribe does with a file: a dict with the text, a
\* dict without it, or an exception
WhisperModels ==
    {[kind |-> "return", value |-> [text |-> t]] : t \in Transcripts}
    \cup
    {[kind |-> "return", value |-> [language |-> "en"]],
     [kind |-> "raise", exc |-> "file not found"],
     [kind |-> "raise", exc |-> "CUDA out of memory"]}

UnsupportedFileFormat ==
    <<"Unsupported file format. Please use MP3 or WAV files.">>

\* f"Error during transcription: {e}"
ErrorDuringTranscription(e) == <<"Error during transcription: ", e>>

\* `audio_file.lower().endswith('.mp3') or audio_file.lower().endswith('.wav')`
WhisperSupported(audio_file) ==
    \/ EndsWith(LowerAll(audio_file), <<".", "m", "p", "3">>)
    \/ EndsWith(LowerAll(audio_file), <<".", "w", "a", "v">>)

\* A recognition whose exception leaves transcribe.
RecognitionUncaught(m) ==
    IF m.kind = "raise" THEN [kind |-> "raise", exc |-> m.exc]
    ELSE IF "text" \in DOMAIN m.value
         THEN [kind |-> "return", value |-> <<m.value.text>>]
         ELSE [kind |-> "raise", exc |-> "KeyError"]

\* `result = self.model.transcribe(audio_file); return result["text"]`
\* inside the try: every exception becomes the error string
Recognition(m) ==
    IF m.kind = "raise"
    THEN [kind |-> "return", value |-> ErrorDuringTranscription(m.exc)]
    ELSE IF "text" \in DOMAIN m.value
         THEN [kind |-> "return", value |-> <<m.value.text>>]
         ELSE [kind |-> "return", value |-> ErrorDuringTranscription("'text'")]

InitWhisper ==
    /\ NoRequest
    /\ health_results = EmptyDict
    /\ model_ready = [b \in Range(ModelServiceKeys) |-> FALSE]
    /\ \E f \in AudioFiles, m \in WhisperModels :
          transcriber = [given |-> TRUE, pc |-> "called", audio_file |-> f,
                         model |-> m, invoked |-> 0, result |-> NoReturn]

\* transcribe looks at the file name: the model is run for .mp3 and .wav,
\* the fixed message returned for any other name; an argument without
\* .lower() ends in the except clause.
WhisperCheckFormat ==
    /\ transcriber.given
    /\ transcriber.pc = "called"
    /\ transcriber' =
          IF ~transcriber.audio_file.str
          THEN [transcriber EXCEPT
                  !.pc = "returned",
                  !.result = [kind |-> "return",
                              value |-> ErrorDuringTranscription("AttributeError")]]
          ELSE IF WhisperSupported(transcriber.audio_file.chars)
          THEN [transcriber EXCEPT !.pc = "recognizing", !.invoked = @ + 1]
          ELSE [transcriber EXCEPT
                  !.pc = "returned",
                  !.result = [kind |-> "return", value |-> UnsupportedFileFormat]]
    /\ UNCHANGED <<dispatchVars, pipelineVars, particleVars, peerVars,
                   health_results, model_ready>>

\* self.model.transcribe ends and transcribe returns.
WhisperRecognize ==
    /\ transcriber.given
    /\ transcriber.pc = "recognizing"
    /\ transcriber' = [transcriber EXCEPT
                         !.pc = "returned",
                         !.result = Recognition(transcriber.model)]
    /\ UNCHANGED <<dispatchVars, pipelineVars, particleVars, peerVars,
                   health_results, model_ready>>

NextWhisper ==
    \/ WhisperCheckFormat
    \/ WhisperRecognize

SpecWhisper == InitWhisper /\ [][NextWhisper]_vars

-----------------------------------------------------------------------------
(* GET /health of the orchestrator *)

\* A status that needs two healthy backends.
HealthStatusAtLeastTwo(healthy_count) ==
    IF healthy_count > 1 THEN "healthy" ELSE "unhealthy"

\* `"healthy" if healthy_count > 0 else "unhealthy"`
HealthStatus(healthy_count) ==
    IF healthy_count > 0 THEN "healthy" ELSE "unhealthy"

\* `sum(health_results.values())`
HealthyCount(results) == Cardinality({b \in DOMAIN results : results[b]})

\* the dict the endpoint returns
HealthReport(results) ==
    [status |-> HealthStatus(HealthyCount(results)),
     healthy_services |-> HealthyCount(results),
     total_services |-> Cardinality(DOMAIN results),
     services |-> results]

\* The request arrives: the session is opened, health_results = {}.
HealthRequest ==
    /\ pc = "idle"
    /\ pc' = "probing"
    /\ health_results' = EmptyDict
    /\ probe' = <<>>
    /\ UNCHANGED <<request, models, health_checks, healthy_models, call, task,
                   callLog, ret>>
    /\ UNCHANGED <<pipelineVars, particleVars, peerVars, transcriber,
                   model_ready>>

\* One turn of the loop over model_services.keys(): the next backend is
\* probed, the probe settles with o, and its boolean is stored.
HealthProbe(o) ==
    /\ pc = "probing"
    /\ Len(probe) < Len(ModelServiceKeys)
    /\ LET model_name == ModelServiceKeys[Len(probe) + 1]
       IN  health_results' =
              (model_name :> HealthCheckService(model_name, o).value)
                  @@ health_results
    /\ probe' = Append(probe, o)
    /\ UNCHANGED <<pc, request, models, health_checks, healthy_models, call,
                   task, callLog, ret>>
    /\ UNCHANGED <<pipelineVars, particleVars, peerVars, transcriber,
                   model_ready>>

\* The loop is over: the report is returned.
HealthAnswer ==
    /\ pc = "probing"
    /\ Len(probe) = Len(ModelServiceKeys)
    /\ response' = Http(200, HealthReport(health_results))
    /\ pc' = "done"
    /\ UNCHANGED <<request, models, probe, health_checks, healthy_models, call,
                   task, callLog, ret>>
    /\ UNCHANGED <<gemini_api_key, tavily_api_key, ground_truth, inflight,
                   step_result, genLog, stageLog, searchLog, consensus_data,
                   search_data, search_results, validated_data>>
    /\ UNCHANGED <<particleVars, peerVars, serviceVars>>

NextHealth ==
    \/ HealthRequest
    \/ \E o \in ProbeOutcomes : HealthProbe(o)
    \/ HealthAnswer

SpecHealth == InitDispatch /\ [][NextHealth]_vars

-----------------------------------------------------------------------------
(* Inputs of the consensus pipeline *)

\* most search queries a Search-Analysis reply carries
MaxQueries == 4

\* the n-th query string of a reply
Query(n) == "query " \o ToString(n)

QueryLists == {[i \in 1..n |-> Query(i)] : n \in 0..MaxQueries}

\* `models` form values of POST /transcribe-consensus: one backend, the
\* text backend with the phoneme backend, an unregistered name
ConsensusRequests ==
    {[given |-> TRUE, list |-> <<"whisper">>],
     [given |-> TRUE, list |-> <<"whisper", "allosaurus">>],
     [given |-> TRUE, list |-> <<"nosuch">>]}

GroundTruths == {NoGroundTruth, [given |-> TRUE, text |-> "Hello world "]}

\* agreement / confidence scores, in hundredths
AgreementScore == 90
ValidationConfidence == 95

\* the transcript a Web-Validation reply corrects the consensus to
CorrectedTranscript == "hello world corrected"

\* arguments of an establish_basic_consensus function call: complete, or
\* with one required field left out
ConsensusArgs ==
    {[consensus_transcription |-> t,
      model_agreement_score |-> AgreementScore,
      primary_model |-> "whisper"] : t \in Transcripts}
    \cup
    {[model_agreement_score |-> AgreementScore, primary_model |-> "whisper"],
     [consensus_transcription |-> "hello world", primary_model |-> "whisper"],
     [consensus_transcription |-> "hello world",
      model_agreement_score |-> AgreementScore]}

\* arguments of an identify_search_worthy_terms function call
SearchArgs ==
    {[search_queries |-> qs, search_reasoning |-> "proper nouns"] : qs \in QueryLists}
    \cup
    {[search_reasoning |-> "proper nouns"],
     [search_queries |-> <<Query(1)>>]}

\* arguments of a validate_with_web_context function call
ValidationArgs ==
    {[final_consensus |-> t, validation_confidence |-> ValidationConfidence]
        : t \in {"hello world", CorrectedTranscript}}
    \cup
    {[validation_confidence |-> ValidationConfidence],
     [final_consensus |-> CorrectedTranscript]}

\* one candidate of a find_discourse_particles reply
ParticleLa == [particle |-> "la", ipa |-> "l a", word_index |-> 1]

\* the transcripts a particle-stage reply proposes
TranscriptWithParticle == "hello la world"

\* final confidence of a generate_final_transcription reply, in hundredths
FinalConfidence == 97

\* arguments of a find_discourse_particles function call
FindParticlesArgs ==
    {[particles_found |-> <<ParticleLa>>,
      llm_recommended_transcription |-> TranscriptWithParticle],
     [particles_found |-> <<>>, llm_recommended_transcription |-> "hello world"],
     [llm_recommended_transcription |-> "hello world"]}

\* arguments of an analyze_particle_placement function call
PlacementArgs ==
    {[detected_particles |-> <<"la">>,
      particle_positions |-> ("la" :> 1),
      placement_reasoning |-> "after hello"],
     [detected_particles |-> <<>>,
      particle_positions |-> <<>>,
      placement_reasoning |-> "none"],
     [placement_reasoning |-> "none"]}

\* arguments of a generate_final_transcription function call
FinalArgs ==
    {[final_transcription |-> "hello world",
      integrated_transcription_all_particles |-> TranscriptWithParticle,
      confidence_score |-> FinalConfidence],
     [final_transcription |-> "hello world", confidence_score |-> FinalConfidence],
     [integrated_transcription_all_particles |-> TranscriptWithParticle]}

StageArgs(stage) ==
    CASE stage = "step1" -> ConsensusArgs
      [] stage = "step2" -> SearchArgs
      [] stage = "step3" -> ValidationArgs
      [] stage = "step4a" -> FindParticlesArgs
      [] stage = "step4b" -> PlacementArgs
      [] stage = "step5" -> FinalArgs

\* what the generation service can answer to one POST
GeminiOutcomes(stage) ==
    {[kind |-> "response", status |-> 200, part |-> "functionCall", args |-> a]
        : a \in StageArgs(stage)}
    \cup
    {[kind |-> "response", status |-> 200, part |-> "text"],
     [kind |-> "response", status |-> 500, part |-> "none"],
     [kind |-> "exception"]}

\* what the web-search service can answer to one POST
TavilyOutcomes ==
    {[kind |-> "response", status |-> 200],
     [kind |-> "response", status |-> 500],
     [kind |-> "exception"]}

-----------------------------------------------------------------------------
(* ASROrchestrator.call_gemini_api, ASROrchestrator.search_tavily *)

\* the early return when no GEMINI_API_KEY is configured
GeminiNotConfigured == [error |-> "GEMINI_API_KEY not configured"]

\* the dict call_gemini_api returns for an answer of the service
CallGeminiApi(o) ==
    IF o.kind = "response"
    THEN IF o.status = 200
         THEN IF o.part = "functionCall"
              THEN [status |-> "success", function_call |-> [args |-> o.args]]
              ELSE [status |-> "success", response |-> "text"]
         ELSE [status |-> "error", error |-> "HTTP " \o ToString(o.status)]
    ELSE [status |-> "error", error |-> "exception"]

\* `result.get("status") == "success" and "function_call" in result`
StepSucceeded(result) ==
    /\ "status" \in DOMAIN result
    /\ result.status = "success"
    /\ "function_call" \in DOMAIN result

\* the early return when no TAVILY_API_KEY is configured
TavilySkip == [status |-> "skip"]

\* the dict search_tavily returns for an answer of the service
SearchTavily(o) ==
    IF o.kind = "response" /\ o.status = 200
    THEN [status |-> "success"]
    ELSE [status |-> "error"]

-----------------------------------------------------------------------------
(* String helpers, tabulated on the strings the model uses *)

\* str.split()
SplitWords(t) ==
    CASE t = "" -> <<>>
      [] t = "hello world" -> <<"hello", "world">>
      [] t = "hello word" -> <<"hello", "word">>
      [] t = "Hello world " -> <<"Hello", "world">>
      [] t = CorrectedTranscript -> <<"hello", "world", "corrected">>
      [] t = "l a" -> <<"l", "a">>

\* str.lower().strip()
LowerStrip(t) == IF t = "Hello world " THEN "hello world" ELSE t

-----------------------------------------------------------------------------
(* ASROrchestrator.execute_consensus_pipeline *)

Raise(exc) == [kind |-> "raise", exc |-> exc]
Return(v) == [kind |-> "return", value |-> v]

\* the dict returned when step 1 did not produce a function call
ConsensusFailed == [status |-> "error", error |-> "Failed to establish consensus"]

\* search_data when step 2 did not produce a function call
SearchFallback ==
    [search_queries |-> <<>>,
     search_reasoning |-> "No terms identified for validation"]

\* `search_data.get("search_queries")`, read as a condition
HasSearchQueries(sd) ==
    "search_queries" \in DOMAIN sd /\ sd.search_queries # <<>>

\* variant: the step-3 fallback reports confidence 0 instead of the
\* agreement score
ValidationFallbackZeroConfidence(cd) ==
    IF {"consensus_transcription", "model_agreement_score"} \subseteq DOMAIN cd
    THEN Return([final_consensus |-> cd.consensus_transcription,
                 validation_confidence |-> 0])
    ELSE Raise("KeyError")

\* validated_data when step 3 is skipped or did not produce a function call
ValidationFallback(cd) ==
    IF {"consensus_transcription", "model_agreement_score"} \subseteq DOMAIN cd
    THEN Return([final_consensus |-> cd.consensus_transcription,
                 validation_confidence |-> cd.model_agreement_score])
    ELSE Raise("KeyError")

\* get_validation_prompt indexes these keys of consensus_data / search_data
ValidationPromptRaises(cd, sd) ==
    \/ ~({"consensus_transcription", "primary_model", "model_agreement_score"}
            \subseteq DOMAIN cd)
    \/ ~({"search_queries", "search_reasoning"} \subseteq DOMAIN sd)

\* A comprehension that keeps the phoneme backend.
AlternativesWithPhonemes(env) ==
    [m \in {b \in DOMAIN env.results : env.results[b].status = "success"}
        |-> Get(env.results[m], "transcription", "")]

\* the `alternatives` comprehension
Alternatives(env) ==
    [m \in {b \in DOMAIN env.results :
              env.results[b].status = "success" /\ b # "allosaurus"}
        |-> Get(env.results[m], "transcription", "")]

\* pronoun_consolidation, the result dict and extract_autocomplete_data
BuildResult(cd, sd, vd, env) ==
    IF \/ ~({"consensus_transcription", "model_agreement_score", "primary_model"}
              \subseteq DOMAIN cd)
       \/ ~({"final_consensus", "validation_confidence"} \subseteq DOMAIN vd)
    THEN Raise("KeyError")
    ELSE Return(
        [status |-> "success",
         primary |-> cd.consensus_transcription,
         pronoun_consolidation |->
            [option_a |-> [transcription |-> cd.consensus_transcription,
                           confidence |-> cd.model_agreement_score],
             option_b |-> [transcription |-> vd.final_consensus,
                           confidence |-> vd.validation_confidence]],
         alternatives |-> Alternatives(env),
         consensus_data |-> cd,
         validation_data |-> vd,
         search_data |-> sd,
         asr_results |-> env,
         metadata |-> [confidence |-> cd.model_agreement_score,
                       models_used |-> env.successful_models],
         autocomplete_data |->
            [final_transcription |-> cd.consensus_transcription,
             confidence_score |-> cd.model_agreement_score,
             detected_particles |-> <<>>,
             asr_alternatives |-> Alternatives(env)]])

-----------------------------------------------------------------------------
(* POST /transcribe-consensus *)

\* The endpoint after execute_consensus_pipeline: the phoneme field, the
\* practice-mode fields when ground_truth is given, and the except clause.
ConsensusEndpointFinish(pr, gt, env) ==
    IF pr.kind = "raise" THEN Http500(pr.exc)
    ELSE LET allosaurus_result == Get(env.results, "allosaurus", EmptyDict)
             allosaurus_transcription ==
                IF Get(allosaurus_result, "status", "") = "success"
                THEN Get(allosaurus_result, "transcription", "")
                ELSE ""
             base == ("asr_generated_phonemes" :> SplitWords(allosaurus_transcription))
                        @@ pr.value
             asr_primary == Get(pr.value, "primary", "")
         IN  IF gt.given /\ gt.text # ""
             THEN Http(200,
                    ("ground_truth" :> gt.text)
                    @@ ("is_practice_mode" :> TRUE)
                    @@ ("accuracy_comparison" :>
                          [ground_truth |-> gt.text,
                           asr_result |-> asr_primary,
                           match |-> LowerStrip(gt.text) = LowerStrip(asr_primary),
                           word_count_diff |->
                              Len(SplitWords(gt.text)) - Len(SplitWords(asr_primary))])
                    @@ ("pronoun_consolidation" :>
                          [option_a |-> asr_primary, option_b |-> gt.text])
                    @@ base)
             ELSE Http(200, base)

InitConsensus ==
    /\ pc = "idle"
    /\ request = [given |-> FALSE, list |-> <<>>]
    /\ models = <<>>
    /\ probe = <<>>
    /\ health_checks = <<>>
    /\ healthy_models = <<>>
    /\ call = <<>>
    /\ task = <<>>
    /\ callLog = <<>>
    /\ ret = NoReturn
    /\ gemini_api_key \in BOOLEAN
    /\ tavily_api_key \in BOOLEAN
    /\ ground_truth = NoGroundTruth
    /\ inflight = "none"
    /\ step_result = NoReturn
    /\ genLog = <<>>
    /\ stageLog = <<>>
    /\ searchLog = <<>>
    /\ consensus_data = EmptyDict
    /\ search_data = EmptyDict
    /\ search_results = <<>>
    /\ validated_data = EmptyDict
    /\ response = NoReturn
    /\ ParticleVarsIdle
    /\ other = IdleCall
    /\ ServiceVarsIdle

\* The request arrives: the form is read and transcribe_parallel is
\* entered; an unregistered name is answered at once (ValueError, HTTP
\* 500), else the health probes are started.
ConsensusRequest(r, gt) ==
    /\ pc = "idle"
    /\ request' = r
    /\ ground_truth' = gt
    /\ models' = ResolveModels(r)
    /\ IF InvalidModels(ResolveModels(r)) # <<>>
       THEN /\ ret' = Raise("ValueError")
            /\ response' = Http500(ret'.exc)
            /\ pc' = "done"
            /\ UNCHANGED <<probe, health_checks>>
       ELSE /\ probe' = [i \in 1..Len(ResolveModels(r)) |-> Pending]
            /\ health_checks' = [i \in 1..Len(ResolveModels(r)) |-> Pending]
            /\ pc' = "health"
            /\ UNCHANGED <<ret, response>>
    /\ UNCHANGED <<particleVars, peerVars, serviceVars>>
    /\ UNCHANGED <<healthy_models, call, task, callLog, gemini_api_key,
                   tavily_api_key, inflight, step_result, genLog, stageLog,
                   searchLog, consensus_data, search_data, search_results,
                   validated_data>>

\* transcribe_parallel has returned its envelope: the endpoint reads the
\* phoneme backend's entry and enters execute_consensus_pipeline.
ExecuteConsensusPipeline ==
    /\ pc = "returned"
    /\ pc' = "step1"
    /\ UNCHANGED <<request, models, probe, health_checks, healthy_models, call,
                   task, callLog, ret>>
    /\ UNCHANGED <<pipelineVars, particleVars, peerVars, serviceVars>>

GeminiStages == {"step1", "step2", "step3", "step4a", "step4b", "step5"}

\* call_gemini_api without a key: the error dict, no request is sent.
GeminiUnconfigured ==
    /\ pc \in GeminiStages
    /\ inflight = "none"
    /\ step_result = NoReturn
    /\ ~gemini_api_key
    /\ step_result' = GeminiNotConfigured
    /\ UNCHANGED <<particleVars, peerVars, serviceVars>>
    /\ UNCHANGED <<dispatchVars, gemini_api_key, tavily_api_key, ground_truth,
                   inflight, genLog, stageLog, searchLog, consensus_data,
                   search_data, search_results, validated_data, response>>

\* call_gemini_api posts the stage's prompt.
GeminiSend ==
    /\ pc \in GeminiStages
    /\ inflight = "none"
    /\ step_result = NoReturn
    /\ gemini_api_key
    /\ inflight' = "gemini"
    /\ genLog' = Append(genLog, pc)
    /\ UNCHANGED <<particleVars, peerVars, serviceVars>>
    /\ UNCHANGED <<dispatchVars, gemini_api_key, tavily_api_key, ground_truth,
                   step_result, stageLog, searchLog, consensus_data,
                   search_data, search_results, validated_data, response>>

\* GeminiReply posting the prompt a second time after a failed first answer.
GeminiReplyRetryOnce ==
    /\ inflight = "gemini"
    /\ \E o \in GeminiOutcomes(pc) :
          IF /\ ~StepSucceeded(CallGeminiApi(o))
             /\ Cardinality({i \in 1..Len(genLog) : genLog[i] = pc}) = 1
          THEN /\ genLog' = Append(genLog, pc)
               /\ UNCHANGED <<inflight, step_result>>
          ELSE /\ inflight' = "none"
               /\ step_result' = CallGeminiApi(o)
               /\ genLog' = genLog
    /\ UNCHANGED <<particleVars, peerVars, serviceVars>>
    /\ UNCHANGED <<dispatchVars, gemini_api_key, tavily_api_key, ground_truth,
                   stageLog, searchLog, consensus_data, search_data,
                   search_results, validated_data, response>>

\* The generation service answers, fails or times out.
GeminiReply ==
    /\ inflight = "gemini"
    /\ inflight' = "none"
    /\ \E o \in GeminiOutcomes(pc) : step_result' = CallGeminiApi(o)
    /\ UNCHANGED <<particleVars, peerVars, serviceVars>>
    /\ UNCHANGED <<dispatchVars, gemini_api_key, tavily_api_key, ground_truth,
                   genLog, stageLog, searchLog, consensus_data, search_data,
                   search_results, validated_data, response>>

\* the `required` list of the stage's function declaration, over the fields
\* the model carries
RequiredFields(stage) ==
    CASE stage = "step1" ->
            {"consensus_transcription", "model_agreement_score", "primary_model"}
      [] stage = "step2" -> {"search_queries", "search_reasoning"}
      [] stage = "step3" -> {"final_consensus", "validation_confidence"}
      [] stage = "step4a" -> {"particles_found", "llm_recommended_transcription"}
      [] stage = "step4b" ->
            {"detected_particles", "particle_positions", "placement_reasoning"}
      [] stage = "step5" ->
            {"final_transcription", "integrated_transcription_all_particles",
             "confidence_score"}

\* how the generation call of a stage ended: with a function call or not,
\* and whether the function call carried every required field
StageEntry(stage, result) ==
    [stage |-> stage,
     ok |-> StepSucceeded(result),
     complete |-> StepSucceeded(result)
                    => RequiredFields(stage) \subseteq DOMAIN result.function_call.args]

\* An endpoint that goes on to particle detection after its answer is built.
AnswerThenDetect(pr) ==
    /\ response' = ConsensusEndpointFinish(pr, ground_truth, ret.value)
    /\ pc' = "step4a"

\* The pipeline leaves execute_consensus_pipeline with pr (a returned dict
\* or a raised exception) and the endpoint answers.
Answer(pr) ==
    /\ response' = ConsensusEndpointFinish(pr, ground_truth, ret.value)
    /\ pc' = "done"

\* Step 1 reads its result: the error dict when there is no function call,
\* else consensus_data and the search prompt built from it.
Step1Handle ==
    /\ pc = "step1"
    /\ step_result # NoReturn
    /\ step_result' = NoReturn
    /\ stageLog' = Append(stageLog, StageEntry(pc, step_result))
    /\ IF ~StepSucceeded(step_result)
       THEN /\ Answer(Return(ConsensusFailed))
            /\ consensus_data' = consensus_data
       ELSE /\ consensus_data' = step_result.function_call.args
            /\ IF "consensus_transcription" \in DOMAIN consensus_data'
               THEN pc' = "step2" /\ response' = response
               ELSE Answer(Raise("KeyError"))
    /\ UNCHANGED <<particleVars, peerVars, serviceVars>>
    /\ UNCHANGED <<request, models, probe, health_checks, healthy_models, call,
                   task, callLog, ret, gemini_api_key, tavily_api_key,
                   ground_truth, inflight, genLog, searchLog, search_data,
                   search_results, validated_data>>

\* Step 2 reads its result: search_data, then either the search loop or,
\* without queries, the pass-through validated_data and the result.
Step2Handle ==
    /\ pc = "step2"
    /\ step_result # NoReturn
    /\ step_result' = NoReturn
    /\ stageLog' = Append(stageLog, StageEntry(pc, step_result))
    /\ search_data' = IF StepSucceeded(step_result)
                      THEN step_result.function_call.args
                      ELSE SearchFallback
    /\ IF HasSearchQueries(search_data')
       THEN /\ pc' = "search"
            /\ UNCHANGED <<validated_data, response>>
       ELSE LET vd == ValidationFallback(consensus_data)
            IN  IF vd.kind = "raise"
                THEN Answer(vd) /\ validated_data' = validated_data
                ELSE /\ validated_data' = vd.value
                     /\ Answer(BuildResult(consensus_data, search_data',
                                           vd.value, ret.value))
    /\ UNCHANGED <<particleVars, peerVars, serviceVars>>
    /\ UNCHANGED <<request, models, probe, health_checks, healthy_models, call,
                   task, callLog, ret, gemini_api_key, tavily_api_key,
                   ground_truth, inflight, genLog, searchLog, consensus_data,
                   search_results>>

\* RecordSearch leaving the search loop after its first query.
RecordSearchFirstOnly(result) ==
    /\ search_results' =
          Append(search_results,
                 [query |-> search_data.search_queries[Len(search_results) + 1],
                  result |-> result])
    /\ pc' = "step3"
    /\ response' = response

\* One more entry of search_results; after the last query the validation
\* prompt is built and step 3 starts.
RecordSearch(result) ==
    /\ search_results' =
          Append(search_results,
                 [query |-> search_data.search_queries[Len(search_results) + 1],
                  result |-> result])
    /\ IF Len(search_results') < Len(search_data.search_queries)
       THEN pc' = "search" /\ response' = response
       ELSE IF ValidationPromptRaises(consensus_data, search_data)
            THEN Answer(Raise("KeyError"))
            ELSE pc' = "step3" /\ response' = response

\* search_tavily without a key: the skip dict, no request is sent.
TavilySkipped ==
    /\ pc = "search"
    /\ inflight = "none"
    /\ ~tavily_api_key
    /\ RecordSearch(TavilySkip)
    /\ UNCHANGED <<particleVars, peerVars, serviceVars>>
    /\ UNCHANGED <<request, models, probe, health_checks, healthy_models, call,
                   task, callLog, ret, gemini_api_key, tavily_api_key,
                   ground_truth, inflight, step_result, genLog, stageLog,
                   searchLog, consensus_data, search_data, validated_data>>

\* search_tavily posts the next query.
TavilySend ==
    /\ pc = "search"
    /\ inflight = "none"
    /\ tavily_api_key
    /\ inflight' = "tavily"
    /\ searchLog' = Append(searchLog,
                           search_data.search_queries[Len(search_results) + 1])
    /\ UNCHANGED <<particleVars, peerVars, serviceVars>>
    /\ UNCHANGED <<dispatchVars, gemini_api_key, tavily_api_key, ground_truth,
                   step_result, genLog, stageLog, consensus_data, search_data,
                   search_results, validated_data, response>>

\* The web-search service answers, fails or times out.
TavilyReply(o) ==
    /\ pc = "search"
    /\ inflight = "tavily"
    /\ inflight' = "none"
    /\ RecordSearch(SearchTavily(o))
    /\ UNCHANGED <<particleVars, peerVars, serviceVars>>
    /\ UNCHANGED <<request, models, probe, health_checks, healthy_models, call,
                   task, callLog, ret, gemini_api_key, tavily_api_key,
                   ground_truth, step_result, genLog, stageLog, searchLog,
                   consensus_data, search_data, validated_data>>

\* Step 3 reads its result: validated_data, then the result dict.
Step3Handle ==
    /\ pc = "step3"
    /\ step_result # NoReturn
    /\ step_result' = NoReturn
    /\ stageLog' = Append(stageLog, StageEntry(pc, step_result))
    /\ LET vd == IF StepSucceeded(step_result)
                 THEN Return(step_result.function_call.args)
                 ELSE ValidationFallback(consensus_data)
       IN  IF vd.kind = "raise"
           THEN Answer(vd) /\ validated_data' = validated_data
           ELSE /\ validated_data' = vd.value
                /\ Answer(BuildResult(consensus_data, search_data, vd.value,
                                      ret.value))
    /\ UNCHANGED <<particleVars, peerVars, serviceVars>>
    /\ UNCHANGED <<request, models, probe, health_checks, healthy_models, call,
                   task, callLog, ret, gemini_api_key, tavily_api_key,
                   ground_truth, inflight, genLog, searchLog, consensus_data,
                   search_data, search_results>>

NextConsensus ==
    \/ \E r \in ConsensusRequests, gt \in GroundTruths : ConsensusRequest(r, gt)
    \/ \E i \in DOMAIN probe, o \in ProbeOutcomes : ProbeSettle(i, o)
    \/ NoHealthyBackends
    \/ IssueTranscriptions
    \/ \E i \in DOMAIN call, o \in CallOutcomes : CallSettle(i, o)
    \/ ReturnEnvelope
    \/ ExecuteConsensusPipeline
    \/ GeminiUnconfigured
    \/ GeminiSend
    \/ GeminiReply
    \/ Step1Handle
    \/ Step2Handle
    \/ TavilySkipped
    \/ TavilySend
    \/ \E o \in TavilyOutcomes : TavilyReply(o)
    \/ Step3Handle

SpecConsensus == InitConsensus /\ [][NextConsensus]_vars

\* the steps of an accepted /transcribe-consensus request
ConsensusProgress ==
    \/ \E i \in DOMAIN probe, o \in ProbeOutcomes : ProbeSettle(i, o)
    \/ NoHealthyBackends
    \/ IssueTranscriptions
    \/ \E i \in DOMAIN call, o \in CallOutcomes : CallSettle(i, o)
    \/ ReturnEnvelope
    \/ ExecuteConsensusPipeline
    \/ GeminiUnconfigured
    \/ GeminiSend
    \/ GeminiReply
    \/ Step1Handle
    \/ Step2Handle
    \/ TavilySkipped
    \/ TavilySend
    \/ \E o \in TavilyOutcomes : TavilyReply(o)
    \/ Step3Handle

LiveConsensus == SpecConsensus /\ WF_vars(ConsensusProgress)

-----------------------------------------------------------------------------
(* POST /transcribe-with-particles: form values *)

\* accent -> particles, for the accents the model uses
DISCOURSE_PARTICLES ==
    [malaysian |-> <<"la", "lor", "leh", "mah", "wan", "kan", "ya", "cis",
                     "wei", "nia">>,
     singaporean |-> <<"lah", "leh", "lor", "meh", "sia", "ceh", "hor", "what",
                       "liao", "arh">>]

\* d without key k
Without(d, k) == [x \in DOMAIN d \ {k} |-> d[x]]

\* one entry of the phoneme backend's diagnostics.timed_phonemes
TimedPhoneme == [phoneme |-> "l", start_time |-> 0, end_time |-> 1]

\* the result dict of the text backend in a cached envelope
WhisperResult ==
    TranscribeWithService("whisper",
        [kind |-> "response", status |-> 200,
         body |-> [transcription |-> "hello world", processing_time |-> 1]]).value

\* the result dict of the phoneme backend: failed, or succeeded with the
\* `diagnostics` field of the standardized result (without / with timing)
AllosaurusResults ==
    LET ok == TranscribeWithService("allosaurus",
                 [kind |-> "response", status |-> 200,
                  body |-> [transcription |-> "l a", processing_time |-> 1]]).value
    IN  {TranscribeWithService("allosaurus", [kind |-> "timeout"]).value,
         ("diagnostics" :> [timed_phonemes |-> <<>>]) @@ ok,
         ("diagnostics" :> [timed_phonemes |-> <<TimedPhoneme>>]) @@ ok}

\* dispatch envelopes a cached consensus result carries
PayloadEnvelopes ==
    {Envelope(<<"whisper">>, <<"whisper">>, "whisper" :> WhisperResult)}
    \cup
    {Envelope(<<"whisper", "allosaurus">>, <<"whisper", "allosaurus">>,
              ("whisper" :> WhisperResult) @@ ("allosaurus" :> a))
        : a \in AllosaurusResults}

CompleteConsensusArgs ==
    {a \in ConsensusArgs : RequiredFields("step1") \subseteq DOMAIN a}

\* search_data of the cached results
PayloadSearchData ==
    [search_queries |-> <<Query(1)>>, search_reasoning |-> "proper nouns"]

\* bodies /transcribe-consensus answers with after a successful pipeline
SuccessPayloads ==
    UNION {
      {ConsensusEndpointFinish(BuildResult(cd, PayloadSearchData, vd, env),
                               gt, env).body
          : vd \in {ValidationFallback(cd).value,
                    [final_consensus |-> CorrectedTranscript,
                     validation_confidence |-> ValidationConfidence]}}
      : cd \in CompleteConsensusArgs, env \in PayloadEnvelopes,
        gt \in GroundTruths}

\* the body /transcribe-consensus answers with when step 1 failed
FailedPayload ==
    ConsensusEndpointFinish(Return(ConsensusFailed), NoGroundTruth,
                            CHOOSE env \in PayloadEnvelopes :
                                "allosaurus" \notin DOMAIN env.results).body

\* a success body from which the client dropped validation_data, the whole
\* of consensus_data, or final_consensus inside validation_data
StrippedPayloads ==
    LET full == CHOOSE b \in SuccessPayloads :
                    /\ "ground_truth" \notin DOMAIN b
                    /\ b.validation_data.final_consensus = CorrectedTranscript
                    /\ b.primary = "hello world"
                    /\ "allosaurus" \notin DOMAIN b.asr_results.results
    IN  {Without(full, "validation_data"),
         Without(full, "consensus_data"),
         [full EXCEPT !.validation_data = Without(@, "final_consensus")]}

\* the consensus_data form field: JSON text of a dict, or text that is not
\* JSON
ConsensusDataForms ==
    {[valid |-> TRUE, value |-> b]
        : b \in SuccessPayloads \cup {FailedPayload} \cup StrippedPayloads}
    \cup {[valid |-> FALSE]}

\* the human_particles form field: absent, not JSON, {}, or a selection
HumanParticlesForms ==
    {NoneValue,
     [given |-> TRUE, valid |-> FALSE],
     [given |-> TRUE, valid |-> TRUE, value |-> EmptyDict],
     [given |-> TRUE, valid |-> TRUE,
      value |-> [particles |-> <<"lah">>, positions |-> ("lah" :> 2)]],
     [given |-> TRUE, valid |-> TRUE, value |-> [particles |-> <<"lor">>]]}

\* the accent_hint form field
AccentHints == {NoneValue, [given |-> TRUE, value |-> "malaysian"]}

-----------------------------------------------------------------------------
(* POST /transcribe-with-particles *)

\* json.loads of a form field
JsonLoads(f) ==
    IF f.valid THEN Return(f.value) ELSE Raise("JSONDecodeError")

\* A parse that reads text that is not JSON as a selection of no particles.
ParseHumanParticlesLenient(f) ==
    IF f.given
    THEN [given |-> TRUE,
          value |-> IF f.valid THEN f.value ELSE [particles |-> <<>>]]
    ELSE NoneValue

\* parsed_human_particles: None when the field is absent or not JSON
ParseHumanParticles(f) ==
    IF f.given /\ f.valid THEN [given |-> TRUE, value |-> f.value]
    ELSE NoneValue

\* variant: a selection counts only when it carries positions
HumanParticlesGivenWithPositions(hp) ==
    hp.given /\ "positions" \in DOMAIN hp.value

\* `if parsed_human_particles:`
HumanParticlesGiven(hp) == hp.given /\ hp.value # EmptyDict

\* allosaurus_timing read from the cached envelope
AllosaurusTiming(cached) ==
    LET asr_results == Get(cached, "asr_results", EmptyDict)
        allosaurus_result ==
            Get(Get(asr_results, "results", EmptyDict), "allosaurus", EmptyDict)
    IN  IF Get(allosaurus_result, "status", "") = "success"
        THEN Get(Get(allosaurus_result, "diagnostics", EmptyDict),
                 "timed_phonemes", <<>>)
        ELSE <<>>

\* the value reported for accent_hint (None reads as "")
AccentValue(ah) == IF ah.given THEN ah.value ELSE ""

\* `DISCOURSE_PARTICLES.get(accent_hint, []) if accent_hint else []`
AccentSpecificParticles(ah) ==
    IF ah.given /\ ah.value # "" THEN Get(DISCOURSE_PARTICLES, ah.value, <<>>)
    ELSE <<>>

\* the dict returned at once when human particles are given
HumanSelectedResponse(cached, hp, ah) ==
    [primary |-> Get(cached, "primary", ""),
     ai_generated_transcription |-> Get(cached, "primary", ""),
     potential_particles |-> Get(hp.value, "particles", <<>>),
     stage |-> "particles_with_accent_human_selected",
     accent_hint |-> AccentValue(ah),
     accent_specific_particles |-> AccentSpecificParticles(ah),
     confidence |-> 100,
     particle_analysis |->
        [potential_particles |-> Get(hp.value, "particles", <<>>),
         particle_positions |-> Get(hp.value, "positions", EmptyDict),
         reasoning |-> "Human-selected particles"]]
    @@ cached

\* variant: the step-4A fallback proposes a candidate of its own
IpaFallbackWithCandidate ==
    [particles_found |-> <<ParticleLa>>, llm_recommended_transcription |-> ""]

\* ipa_interpretation when step 4A did not produce a function call
IpaFallback == [particles_found |-> <<>>, llm_recommended_transcription |-> ""]

\* validated_data of the cached result, final_consensus filled in when it
\* is missing
CachedValidatedData(cached) ==
    LET vd == Get(cached, "validation_data", EmptyDict)
        cdi == Get(cached, "consensus_data", EmptyDict)
    IN  IF "final_consensus" \in DOMAIN vd THEN vd
        ELSE ("final_consensus" :>
                Get(cdi, "consensus_transcription", Get(cached, "primary", "")))
             @@ vd

\* particle_data after step 4B
ParticleData(vd, ipa, result) ==
    IF StepSucceeded(result)
    THEN LET placement_data == result.function_call.args
         IN  [base_transcription |-> vd.final_consensus,
              outlier_phonemes |-> <<>>,
              detected_particles |-> Get(placement_data, "detected_particles", <<>>),
              particle_positions |->
                 Get(placement_data, "particle_positions", EmptyDict),
              ipa_interpretation |-> ipa,
              placement_reasoning |-> Get(placement_data, "placement_reasoning", "")]
    ELSE [base_transcription |-> vd.final_consensus,
          outlier_phonemes |-> <<>>,
          detected_particles |-> <<>>,
          particle_positions |-> EmptyDict,
          ipa_interpretation |-> ipa]

\* get_final_transcription_prompt indexes these keys
FinalPromptRaises(cdi, vd) ==
    \/ ~({"consensus_transcription", "model_agreement_score", "primary_model"}
            \subseteq DOMAIN cdi)
    \/ "final_consensus" \notin DOMAIN vd

\* variant: the step-5 fallback reports full confidence
FinalFallbackFullConfidence(cdi, vd) ==
    [final_transcription |-> vd.final_consensus,
     integrated_transcription_all_particles |-> vd.final_consensus,
     confidence_score |-> 100]

\* final_data when step 5 did not produce a function call
FinalFallback(cdi, vd) ==
    [final_transcription |-> vd.final_consensus,
     integrated_transcription_all_particles |-> vd.final_consensus,
     confidence_score |-> Get(cdi, "model_agreement_score", 100)]

\* variant: the finalized answer reports the assembled transcript as primary
FinalizedResponsePrimaryAssembled(cached, ipa, fd, vd, ah) ==
    [primary |-> Get(fd, "integrated_transcription_all_particles",
                     Get(fd, "final_transcription", vd.final_consensus)),
     ai_generated_transcription |->
        Get(fd, "integrated_transcription_all_particles",
            Get(fd, "final_transcription", vd.final_consensus)),
     potential_particles |-> Get(ipa, "particles_found", <<>>),
     stage |-> "particles_with_accent_finalized",
     accent_hint |-> AccentValue(ah),
     accent_specific_particles |-> AccentSpecificParticles(ah),
     confidence |-> Get(fd, "confidence_score", 100)]
    @@ cached

\* the dict returned after step 5
FinalizedResponse(cached, ipa, fd, vd, ah) ==
    [primary |-> Get(cached, "primary", ""),
     ai_generated_transcription |->
        Get(fd, "integrated_transcription_all_particles",
            Get(fd, "final_transcription", vd.final_consensus)),
     potential_particles |-> Get(ipa, "particles_found", <<>>),
     stage |-> "particles_with_accent_finalized",
     accent_hint |-> AccentValue(ah),
     accent_specific_particles |-> AccentSpecificParticles(ah),
     confidence |-> Get(fd, "confidence_score", 100)]
    @@ cached

InitParticles ==
    /\ pc = "idle"
    /\ request = [given |-> FALSE, list |-> <<>>]
    /\ models = <<>>
    /\ probe = <<>>
    /\ health_checks = <<>>
    /\ healthy_models = <<>>
    /\ call = <<>>
    /\ task = <<>>
    /\ callLog = <<>>
    /\ ret = NoReturn
    /\ gemini_api_key \in BOOLEAN
    /\ tavily_api_key = TRUE
    /\ ground_truth = NoGroundTruth
    /\ inflight = "none"
    /\ step_result = NoReturn
    /\ genLog = <<>>
    /\ stageLog = <<>>
    /\ searchLog = <<>>
    /\ consensus_data = EmptyDict
    /\ search_data = EmptyDict
    /\ search_results = <<>>
    /\ validated_data = EmptyDict
    /\ response = NoReturn
    /\ ParticleVarsIdle
    /\ other = IdleCall
    /\ ServiceVarsIdle

\* The request arrives: the form fields are parsed; with human particles
\* the answer is returned at once, else step 4A starts.
ParticlesRequest(f, hf, ah) ==
    /\ pc = "idle"
    /\ IF JsonLoads(f).kind = "raise"
       THEN /\ response' = Http500("400: Invalid consensus_data JSON")
            /\ pc' = "done"
            /\ UNCHANGED <<cached_consensus, parsed_human_particles,
                           accent_hint, allosaurus_timing>>
       ELSE /\ cached_consensus' = JsonLoads(f).value
            /\ allosaurus_timing' = AllosaurusTiming(cached_consensus')
            /\ parsed_human_particles' = ParseHumanParticles(hf)
            /\ accent_hint' = ah
            /\ IF HumanParticlesGiven(parsed_human_particles')
               THEN /\ response' = Http(200,
                          HumanSelectedResponse(cached_consensus',
                                                parsed_human_particles', ah))
                    /\ pc' = "done"
               ELSE /\ response' = response
                    /\ pc' = "step4a"
    /\ UNCHANGED <<request, models, probe, health_checks, healthy_models, call,
                   task, callLog, ret, peerVars, serviceVars>>
    /\ UNCHANGED <<gemini_api_key, tavily_api_key, ground_truth,
                   inflight, step_result, genLog, stageLog, searchLog,
                   consensus_data, search_data, search_results, validated_data,
                   ipa_interpretation, particle_data, final_data>>

\* Step 4A reads its result: ipa_interpretation; the cached stage data are
\* read and final_consensus filled in (in place when validation_data is in
\* the cached dict).
Step4AHandle ==
    /\ pc = "step4a"
    /\ step_result # NoReturn
    /\ step_result' = NoReturn
    /\ stageLog' = Append(stageLog, StageEntry(pc, step_result))
    /\ ipa_interpretation' = IF StepSucceeded(step_result)
                             THEN step_result.function_call.args
                             ELSE IpaFallback
    /\ validated_data' = CachedValidatedData(cached_consensus)
    /\ consensus_data' = Get(cached_consensus, "consensus_data", EmptyDict)
    /\ search_data' = Get(cached_consensus, "search_data", EmptyDict)
    /\ cached_consensus' =
          IF "validation_data" \in DOMAIN cached_consensus
          THEN [cached_consensus EXCEPT !.validation_data = validated_data']
          ELSE cached_consensus
    /\ pc' = "step4b"
    /\ UNCHANGED <<request, models, probe, health_checks, healthy_models, call,
                   task, callLog, ret, peerVars, serviceVars>>
    /\ UNCHANGED <<gemini_api_key, tavily_api_key, ground_truth,
                   inflight, genLog, searchLog, search_results, response,
                   parsed_human_particles, accent_hint, allosaurus_timing,
                   particle_data, final_data>>

\* Step 4B reads its result: particle_data; then the final prompt is built.
\* A KeyError of the prompt is caught by the inner handler, which raises
\* HTTPException(500, "KeyError"); the outer handler catches that one and
\* raises another whose detail is the text of the first, "500: KeyError".
Step4BHandle ==
    /\ pc = "step4b"
    /\ step_result # NoReturn
    /\ step_result' = NoReturn
    /\ stageLog' = Append(stageLog, StageEntry(pc, step_result))
    /\ particle_data' = ParticleData(validated_data, ipa_interpretation,
                                     step_result)
    /\ IF FinalPromptRaises(consensus_data, validated_data)
       THEN response' = Http500("500: KeyError") /\ pc' = "done"
       ELSE response' = response /\ pc' = "step5"
    /\ UNCHANGED <<request, models, probe, health_checks, healthy_models, call,
                   task, callLog, ret, peerVars, serviceVars>>
    /\ UNCHANGED <<gemini_api_key, tavily_api_key, ground_truth,
                   inflight, genLog, searchLog, consensus_data, search_data,
                   search_results, validated_data, cached_consensus,
                   parsed_human_particles, accent_hint, allosaurus_timing,
                   ipa_interpretation, final_data>>

\* Step 5 reads its result: final_data, and the endpoint answers.
Step5Handle ==
    /\ pc = "step5"
    /\ step_result # NoReturn
    /\ step_result' = NoReturn
    /\ stageLog' = Append(stageLog, StageEntry(pc, step_result))
    /\ final_data' = IF StepSucceeded(step_result)
                     THEN step_result.function_call.args
                     ELSE FinalFallback(consensus_data, validated_data)
    /\ response' = Http(200, FinalizedResponse(cached_consensus,
                                               ipa_interpretation, final_data',
                                               validated_data, accent_hint))
    /\ pc' = "done"
    /\ UNCHANGED <<request, models, probe, health_checks, healthy_models, call,
                   task, callLog, ret, peerVars, serviceVars>>
    /\ UNCHANGED <<gemini_api_key, tavily_api_key, ground_truth,
                   inflight, genLog, searchLog, consensus_data, search_data,
                   search_results, validated_data, cached_consensus,
                   parsed_human_particles, accent_hint, allosaurus_timing,
                   ipa_interpretation, particle_data>>

NextParticles ==
    \/ \E f \in ConsensusDataForms, hf \in HumanParticlesForms,
          ah \in AccentHints : ParticlesRequest(f, hf, ah)
    \/ GeminiUnconfigured
    \/ GeminiSend
    \/ GeminiReply
    \/ Step4AHandle
    \/ Step4BHandle
    \/ Step5Handle

SpecParticles == InitParticles /\ [][NextParticles]_vars

-----------------------------------------------------------------------------
(* One request to either pipeline endpoint of the one application *)

\* The application serves POST /transcribe-consensus and POST
\* /transcribe-with-particles: the request that arrives is one or the
\* other, and the handler it entered runs its own steps.
NextPipeline ==
    \/ \E r \in ConsensusRequests, gt \in GroundTruths : ConsensusRequest(r, gt)
    \/ \E i \in DOMAIN probe, o \in ProbeOutcomes : ProbeSettle(i, o)
    \/ NoHealthyBackends
    \/ IssueTranscriptions
    \/ \E i \in DOMAIN call, o \in CallOutcomes : CallSettle(i, o)
    \/ ReturnEnvelope
    \/ ExecuteConsensusPipeline
    \/ \E f \in ConsensusDataForms, hf \in HumanParticlesForms,
          ah \in AccentHints : ParticlesRequest(f, hf, ah)
    \/ GeminiUnconfigured
    \/ GeminiSend
    \/ GeminiReply
    \/ Step1Handle
    \/ Step2Handle
    \/ TavilySkipped
    \/ TavilySend
    \/ \E o \in TavilyOutcomes : TavilyReply(o)
    \/ Step3Handle
    \/ Step4AHandle
    \/ Step4BHandle
    \/ Step5Handle

SpecPipeline == InitConsensus /\ [][NextPipeline]_vars

\* the steps of an accepted request of either endpoint: every probe, call,
\* generation call and search settles (reply, error or its own timeout)
\* and the code goes on
PipelineProgress ==
    \/ ConsensusProgress
    \/ Step4AHandle
    \/ Step4BHandle
    \/ Step5Handle

LivePipeline == SpecPipeline /\ WF_vars(PipelineProgress)

-----------------------------------------------------------------------------
(* Properties of the dispatch (SpecDispatch) *)

Returned == ret.kind = "return"

\* what the probe gather holds for an entry classified healthy / unhealthy
ProbedHealthy == [kind |-> "return", value |-> TRUE]
ProbedUnhealthy == [kind |-> "return", value |-> FALSE]

\* the position whose result the processing loop leaves under name b
LastPosition(s, b) ==
    CHOOSE i \in DOMAIN s : s[i] = b /\ \A j \in DOMAIN s : j > i => s[j] # b

CountIn(s, b) == Cardinality({i \in DOMAIN s : s[i] = b})

\* C1: in every envelope transcribe_parallel returns, the keys of `results`
\* are exactly the healthy backends, the healthy backends are among the
\* requested ones, and the requested ones are registry keys.
C1_ResultKeys ==
    Returned =>
        /\ DOMAIN ret.value.results = Range(ret.value.healthy_models)
        /\ Range(ret.value.healthy_models) \subseteq Range(ret.value.models_requested)
        /\ Range(ret.value.models_requested) \subseteq DOMAIN model_services

\* C1 witness: an envelope whose healthy backends are a non-empty proper
\* subset of the requested ones, one of them with an error result.
C1_Witness ==
    /\ Returned
    /\ ret.value.healthy_models # <<>>
    /\ Range(ret.value.healthy_models) # Range(ret.value.models_requested)
    /\ \E b \in DOMAIN ret.value.results : ret.value.results[b].status = "error"

\* C2: whatever the order in which the calls settled, the result recorded
\* for a healthy backend is the standardized result of that backend's own
\* call outcome; no other backend's error, timeout or exception changes it.
C2_FailureIsolation ==
    (Returned /\ healthy_models # <<>>) =>
        \A b \in Range(healthy_models) :
            LET i == LastPosition(healthy_models, b)
            IN  /\ b \in DOMAIN ret.value.results
                /\ call[i] # Pending
                /\ ret.value.results[b] = TranscribeWithService(b, call[i]).value

\* C2 witness: one backend succeeded while another one timed out, and a
\* third one raised a transport exception.
C2_Witness ==
    /\ Returned
    /\ \E i, j, k \in DOMAIN call :
          /\ call[i].kind = "response" /\ call[i].status = 200
          /\ call[j].kind = "timeout"
          /\ call[k].kind = "exception"
          /\ ret.value.results[healthy_models[i]].status = "success"
          /\ healthy_models[i] # healthy_models[j]
          /\ healthy_models[i] # healthy_models[k]

\* C3: when every requested backend is unhealthy the dispatch returns (it
\* does not raise) the envelope with no results, zero successful models and
\* the no-healthy-services marker, and no transcription call was sent.
C3_AllUnhealthy ==
    (/\ pc \notin {"idle", "health"}
     /\ InvalidModels(models) = <<>>
     /\ \A i \in DOMAIN health_checks : health_checks[i] = ProbedUnhealthy)
    =>
        /\ pc \in {"returned", "done"}
        /\ Returned
        /\ DOMAIN ret.value.results = {}
        /\ ret.value.successful_models = 0
        /\ ret.value.healthy_models = <<>>
        /\ "error" \in DOMAIN ret.value
        /\ ret.value.error = NoHealthyMessage
        /\ callLog = <<>>

\* C3 witness: a request for two backends, both probed unhealthy, returned.
C3_Witness ==
    /\ pc = "returned"
    /\ Len(models) >= 2
    /\ \A i \in DOMAIN health_checks : health_checks[i] = ProbedUnhealthy

\* a probe outcome that is an HTTP answer with a 2xx status
Is2xx(o) == o.kind = "response" /\ o.status \in 200..299

\* C4: a probe that answered non-2xx, could not connect or timed out yields
\* the value False (the probe does not raise), and transcription calls go
\* only to requested entries whose probe was healthy: per backend name there
\* are never more calls than healthy entries of that name.
C4_HealthGating ==
    /\ \A i \in DOMAIN probe :
          (probe[i] # Pending /\ ~Is2xx(probe[i]))
              => health_checks[i] = ProbedUnhealthy
    /\ \A b \in Range(callLog) :
          CountIn(callLog, b)
              <= Cardinality({i \in DOMAIN models :
                                models[i] = b /\ health_checks[i] = ProbedHealthy})

\* C4 witness: calls were issued for a request in which another entry had
\* been classified unhealthy.
C4_Witness ==
    /\ pc = "transcribe"
    /\ callLog # <<>>
    /\ \E i \in DOMAIN models :
          /\ health_checks[i] = ProbedUnhealthy
          /\ models[i] \notin Range(callLog)

\* C5: the envelope is returned only when every issued call has settled by
\* its own outcome, and no call is ever finished (cancelled) by anything but
\* its own outcome while it is in flight.
C5_Barrier ==
    /\ Returned => \A i \in DOMAIN call : call[i] # Pending /\ task[i] # Pending
    /\ \A i \in DOMAIN task : task[i] # Pending => call[i] # Pending

\* C5 witness: the first call failed while a second one was still in
\* flight, and the dispatch has not returned.
C5_Witness ==
    /\ pc = "transcribe"
    /\ ~Returned
    /\ \E i, j \in DOMAIN call :
          /\ call[i] # Pending
          /\ task[i].value.status = "error"
          /\ call[j] = Pending
          /\ task[j] = Pending

\* C9: in every envelope an error entry has no transcription field and a
\* success entry has one.
C9_ErrorHasNoTranscript ==
    Returned =>
        \A b \in DOMAIN ret.value.results :
            LET r == ret.value.results[b]
            IN  /\ r.status \in {"success", "error"}
                /\ r.status = "error" => "transcription" \notin DOMAIN r
                /\ r.status = "success" => "transcription" \in DOMAIN r

\* C9 witness: an envelope with an error entry and a success entry.
C9_Witness ==
    /\ Returned
    /\ \E a, b \in DOMAIN ret.value.results :
          /\ ret.value.results[a].status = "error"
          /\ ret.value.results[b].status = "success"

\* a 200 reply whose JSON body has no transcription field
LacksTranscription(o) ==
    /\ o.kind = "response"
    /\ o.status = 200
    /\ "transcription" \notin DOMAIN o.body

\* C10: a 200 reply without the transcription field is recorded as an error
\* result for that backend.
C10_MissingFieldIsError ==
    Returned =>
        \A b \in Range(healthy_models) :
            LacksTranscription(call[LastPosition(healthy_models, b)])
                => ret.value.results[b].status = "error"

\* the requested entries of name b whose probe was classified healthy
HealthyEntries(b) ==
    {i \in DOMAIN models : models[i] = b /\ health_checks[i] = ProbedHealthy}

\* C11: once the calls are issued, every backend with a healthy requested
\* entry has been sent exactly one transcription call, also when the request
\* names it more than once, and no other backend has been sent any.
C11_OneCallPerHealthyBackend ==
    (pc \in {"transcribe", "returned"} \/ (pc = "done" /\ Returned)) =>
        \A b \in Range(models) :
            CountIn(callLog, b) = (IF HealthyEntries(b) # {} THEN 1 ELSE 0)

\* C21: when the dispatch found no healthy backend, /transcribe answers
\* with an explicit failure: a status other than 200 or a body that carries
\* an error.
C21_NoHealthyIsFailure ==
    (pc = "done" /\ ret.kind = "return" /\ ret.value.healthy_models = <<>>) =>
        \/ response.code # 200
        \/ "error" \in DOMAIN response.body

\* C22: every accepted request (its dispatch and its pipeline run) is
\* answered, whatever the probes, the backend calls, the generation calls
\* and the searches end with, provided each of them settles.
C22_Terminates == (pc # "idle") ~> (pc = "done")

\* C22 witness: no backend could be reached by its probe, the dispatch
\* returned its empty envelope, the one generation call that was posted
\* failed, and the request was answered all the same.
C22_Witness ==
    /\ pc = "done"
    /\ models = <<"whisper", "allosaurus">>
    /\ health_checks = <<[kind |-> "return", value |-> FALSE],
                         [kind |-> "return", value |-> FALSE]>>
    /\ callLog = <<>>
    /\ ret.kind = "return"
    /\ ret.value.healthy_models = <<>>
    /\ gemini_api_key
    /\ genLog = <<"step1">>
    /\ Len(stageLog) = 1
    /\ ~stageLog[1].ok
    /\ response.kind = "http"

-----------------------------------------------------------------------------
(* Properties of the consensus pipeline (SpecConsensus) *)

\* the registry keys in lexicographic order
SortedKeys ==
    <<"allosaurus", "mesolitica", "moonshine", "vosk", "wav2vec", "whisper">>

Successful(env) == {b \in DOMAIN env.results : env.results[b].status = "success"}

\* the lexicographically first successful backend of an envelope
FirstSuccessful(env) ==
    SortedKeys[CHOOSE i \in DOMAIN SortedKeys :
                  /\ SortedKeys[i] \in Successful(env)
                  /\ \A j \in 1..(i - 1) : SortedKeys[j] \notin Successful(env)]

Step1Failed == \E k \in DOMAIN stageLog :
                  stageLog[k].stage = "step1" /\ ~stageLog[k].ok

AnsweredError ==
    /\ response.kind = "http"
    /\ \/ response.code # 200
       \/ response.body.status # "success"

\* C6: when the Consensus generation call has failed and a backend had
\* succeeded, the pipeline goes on with the transcript of the
\* lexicographically first successful backend as consensus transcript and
\* agreement score 0.
C6_ConsensusFallback ==
    (Step1Failed /\ Successful(ret.value) # {}) =>
        /\ ~AnsweredError
        /\ "consensus_transcription" \in DOMAIN consensus_data
        /\ consensus_data.consensus_transcription
              = ret.value.results[FirstSuccessful(ret.value)].transcription
        /\ consensus_data.model_agreement_score = 0

\* every generation reply read so far was a failure or a function call with
\* all required fields
RepliesWellFormed == \A k \in DOMAIN stageLog : stageLog[k].complete

\* C7: whatever fails among the generation and search services (missing
\* keys included), a request whose dispatch returned ends with HTTP 200 and
\* a success result carrying a transcript.
C7_NoFailurePropagates ==
    (pc = "done" /\ ret.kind = "return" /\ RepliesWellFormed) =>
        /\ response.kind = "http"
        /\ response.code = 200
        /\ response.body.status = "success"
        /\ "primary" \in DOMAIN response.body

\* C8: a function call that lacks a required field of its stage never makes
\* the request fail, and the stage's fallback value is what is merged.
C8_RequiredFields ==
    \A k \in DOMAIN stageLog :
        (stageLog[k].ok /\ ~stageLog[k].complete) =>
            /\ ~(response.kind = "http" /\ response.code = 500)
            /\ stageLog[k].stage = "step2" => search_data = SearchFallback
            /\ (stageLog[k].stage = "step3" /\ pc = "done") =>
                  validated_data = ValidationFallback(consensus_data).value

\* the stageLog entries of one stage
EntriesOf(stage) == {k \in DOMAIN stageLog : stageLog[k].stage = stage}

\* the request was answered with HTTP 200 and a success result
AnsweredSuccess ==
    /\ pc = "done"
    /\ response.kind = "http"
    /\ response.code = 200
    /\ response.body.status = "success"

\* Search-Analysis has ended with no queries: by fallback or by its reply
NoQueriesYielded ==
    \E k \in EntriesOf("step2") :
        \/ ~stageLog[k].ok
        \/ Get(search_data, "search_queries", <<>>) = <<>>

\* C12: when Search-Analysis ends with an empty query list, by a reply or by
\* fallback, search_tavily is never entered, no search POST and no Validation
\* generation call is sent, and the request ends with a validated
\* transcript (final_consensus) equal to the consensus transcript.
C12_EmptyQueriesSkipSearch ==
    NoQueriesYielded =>
        /\ searchLog = <<>>
        /\ search_results = <<>>
        /\ "step3" \notin Range(genLog)
        /\ AnsweredSuccess
        /\ validated_data.final_consensus
              = consensus_data.consensus_transcription
        /\ response.body.validation_data.final_consensus
              = response.body.primary

\* search_tavily ran for every query and none of the runs succeeded
EverySearchFailed ==
    /\ search_results # <<>>
    /\ "search_queries" \in DOMAIN search_data
    /\ Len(search_results) = Len(search_data.search_queries)
    /\ \A k \in DOMAIN search_results :
          search_results[k].result.status # "success"

\* C13: when the web search failed (error, timeout, skipped) for every
\* query, the request ends with final_consensus equal to the consensus
\* transcript, whatever the Validation reply was.
C13_SearchFailureKeepsConsensus ==
    (EverySearchFailed /\ AnsweredSuccess) =>
        validated_data.final_consensus = consensus_data.consensus_transcription

\* C14: when the Validation generation call fails or gives no function call,
\* the request ends with final_consensus equal to the consensus transcript
\* and validation_confidence equal to the agreement score.
C14_ValidationFallback ==
    (\E k \in EntriesOf("step3") : ~stageLog[k].ok) =>
        /\ AnsweredSuccess
        /\ validated_data.final_consensus
              = consensus_data.consensus_transcription
        /\ validated_data.validation_confidence
              = consensus_data.model_agreement_score
        /\ response.body.validation_data = validated_data
        /\ response.body.validation_data.final_consensus = response.body.primary

\* C14 witness: searches were sent, the Validation call then failed, and the
\* request ended with the agreement score as validation confidence.
C14_Witness ==
    /\ AnsweredSuccess
    /\ searchLog # <<>>
    /\ \E k \in EntriesOf("step3") : ~stageLog[k].ok
    /\ response.body.validation_data.validation_confidence = AgreementScore

\* C15: never more than 3 search POSTs are sent for one request.
C15_SearchCallCap == Len(searchLog) <= 3

-----------------------------------------------------------------------------
(* Properties of the particle pipeline (SpecParticles) *)

\* /transcribe-with-particles answered with HTTP 200
AnsweredOk == pc = "done" /\ response.kind = "http" /\ response.code = 200

\* the request carried a non-empty human selection
OverrideGiven ==
    parsed_human_particles.given /\ parsed_human_particles.value # EmptyDict

\* C16: the answer of /transcribe-with-particles carries the cached result
\* of the consensus pipeline with `primary` and every cached field as they
\* were (validation_data apart); and in a result the consensus pipeline
\* built, `primary` is the consensus_transcription of the Consensus stage.
C16_ConsensusReadOnly ==
    AnsweredOk =>
        /\ response.body.primary = Get(cached_consensus, "primary", "")
        /\ \A k \in DOMAIN cached_consensus \ {"primary"} :
              k \in DOMAIN response.body /\ response.body[k] = cached_consensus[k]
        /\ ("primary" \in DOMAIN cached_consensus
              /\ "consensus_data" \in DOMAIN cached_consensus) =>
              /\ response.body.primary
                    = response.body.consensus_data.consensus_transcription
              /\ response.body.consensus_data.consensus_transcription
                    \in Transcripts

\* C16 witness: final assembly proposed another transcript, and the answer
\* still carries the consensus transcript as primary.
C16_Witness ==
    /\ AnsweredOk
    /\ response.body.stage = "particles_with_accent_finalized"
    /\ response.body.ai_generated_transcription = TranscriptWithParticle
    /\ "validation_data" \in DOMAIN response.body
    /\ Get(response.body.validation_data, "final_consensus", "")
          = CorrectedTranscript
    /\ response.body.primary = "hello world"

\* C17: with an empty phoneme timing (and no human selection) the answer
\* has no candidate particles and no detected particles, whatever the
\* generation service replied.
C17_NoTimingNoParticles ==
    (AnsweredOk /\ allosaurus_timing = <<>> /\ ~OverrideGiven) =>
        /\ response.body.potential_particles = <<>>
        /\ Get(particle_data, "detected_particles", <<>>) = <<>>

\* C18: when the 4A call fails the candidate list is empty, in the stage
\* data and in the answer; when the 4B call fails the detected particles
\* and the positions are empty; positions exist only if 4B gave a function
\* call.
C18_ParticleFallback ==
    /\ (\E k \in EntriesOf("step4a") : ~stageLog[k].ok) =>
          /\ ipa_interpretation.particles_found = <<>>
          /\ AnsweredOk => response.body.potential_particles = <<>>
    /\ (\E k \in EntriesOf("step4b") : ~stageLog[k].ok) =>
          /\ particle_data.detected_particles = <<>>
          /\ particle_data.particle_positions = EmptyDict
          /\ AnsweredOk => "particle_analysis" \notin DOMAIN response.body

\* C18 witness: both sub-calls failed and the request was answered.
C18_Witness ==
    /\ AnsweredOk
    /\ \E k \in EntriesOf("step4a") : ~stageLog[k].ok
    /\ \E k \in EntriesOf("step4b") : ~stageLog[k].ok
    /\ response.body.potential_particles = <<>>
    /\ allosaurus_timing # <<>>

\* C19: when the Final-Assembly call fails, both transcripts of final_data
\* and the transcript answered equal final_consensus, and the confidence
\* equals the agreement score of the consensus data.
C19_FinalFallback ==
    (\E k \in EntriesOf("step5") : ~stageLog[k].ok) =>
        /\ final_data.final_transcription = validated_data.final_consensus
        /\ final_data.integrated_transcription_all_particles
              = validated_data.final_consensus
        /\ final_data.confidence_score
              = cached_consensus.consensus_data.model_agreement_score
        /\ AnsweredOk
        /\ response.body.ai_generated_transcription
              = validated_data.final_consensus
        /\ response.body.confidence
              = response.body.consensus_data.model_agreement_score

\* C19 witness: step 5 failed after 4B had placed a particle; the answer
\* carries the corrected transcript and the agreement score.
C19_Witness ==
    /\ AnsweredOk
    /\ \E k \in EntriesOf("step5") : ~stageLog[k].ok
    /\ particle_data.detected_particles # <<>>
    /\ response.body.ai_generated_transcription = CorrectedTranscript
    /\ response.body.confidence = AgreementScore

\* C20: with a human selection no generation call is sent, and the answer
\* carries the selection's particles and positions and the cached primary.
C20_HumanOverride ==
    OverrideGiven =>
        /\ genLog = <<>>
        /\ stageLog = <<>>
        /\ AnsweredOk
        /\ response.body.potential_particles
              = Get(parsed_human_particles.value, "particles", <<>>)
        /\ response.body.particle_analysis.potential_particles
              = Get(parsed_human_particles.value, "particles", <<>>)
        /\ response.body.particle_analysis.particle_positions
              = Get(parsed_human_particles.value, "positions", EmptyDict)
        /\ response.body.primary = Get(cached_consensus, "primary", "")

\* C20 witness: a selection without positions was answered while the
\* generation service was configured.
C20_Witness ==
    /\ AnsweredOk
    /\ gemini_api_key
    /\ OverrideGiven
    /\ response.body.potential_particles = <<"lor">>
    /\ response.body.primary = "hello word"


\* ---------------------------------------------------------------------
\* Claims about the order of the stages
\* ---------------------------------------------------------------------

\* a generation call of the stage was posted
Issued(stage) == \E i \in 1..Len(genLog) : genLog[i] = stage

\* the stage's generation call has returned and its result was read
Settled(stage) == \E i \in 1..Len(stageLog) : stageLog[i].stage = stage

\* C23: the stages run in order and never overlap: the search-analysis call
\* is posted only after the consensus call has settled, a web search only
\* after search analysis has settled, the validation call only after every
\* web search has settled, placement only after detection, final assembly
\* only after placement; and at most one external call is outstanding.
C23_StagesInOrder ==
    /\ Issued("step2") => Settled("step1")
    /\ searchLog # <<>> => Settled("step2")
    /\ Issued("step3") =>
          /\ Settled("step2")
          /\ inflight # "tavily"
          /\ Len(search_results) = Len(Get(search_data, "search_queries", <<>>))
    /\ Issued("step4b") => Settled("step4a")
    /\ Issued("step5") => Settled("step4b")
    /\ Len(genLog) <= Len(stageLog) + 1
    /\ Len(searchLog) <= Len(search_results) + 1
    /\ inflight = "gemini" => Len(searchLog) <= Len(search_results)
    /\ inflight = "tavily" =>
          /\ step_result = NoReturn
          /\ Len(genLog) <= Len(stageLog)

\* C23 witness: a /transcribe-with-particles request whose detection call
\* was answered before placement was posted, and placement before final
\* assembly; every call has settled and the request is answered.
C23_Witness ==
    /\ pc = "done"
    /\ gemini_api_key
    /\ genLog = <<"step4a", "step4b", "step5">>
    /\ Len(stageLog) = 3
    /\ stageLog[1].stage = "step4a"
    /\ stageLog[2].stage = "step4b"
    /\ stageLog[3].stage = "step5"
    /\ \A k \in 1..3 : stageLog[k].ok
    /\ inflight = "none"


\* C24: no stage posts its prompt twice, and no stage is read twice; a
\* failed consensus call ends the request with nothing posted after it.
C24_NoRetry ==
    /\ \A i, j \in 1..Len(genLog) : i # j => genLog[i] # genLog[j]
    /\ \A i, j \in 1..Len(stageLog) :
          i # j => stageLog[i].stage # stageLog[j].stage
    /\ \A k \in 1..Len(stageLog) :
          (stageLog[k].stage = "step1" /\ ~stageLog[k].ok) =>
              /\ pc = "done"
              /\ Len(stageLog) = 1
              /\ Len(genLog) <= 1
              /\ searchLog = <<>>

\* C24 witness: the search-analysis call was posted once, failed, and the
\* request was answered without another generation call.
C24_Witness ==
    /\ pc = "done"
    /\ genLog = <<"step1", "step2">>
    /\ Len(stageLog) = 2
    /\ stageLog[2].stage = "step2"
    /\ ~stageLog[2].ok


\* a web search of the request was sent and failed
SomeSearchFailed ==
    \E k \in DOMAIN search_results : search_results[k].result.status = "error"

\* C25: a failed web search stops nothing: the evidence has one entry per
\* query, in query order; with a search key every query is posted; once the
\* loop is left every query has its entry; and the validation call is made
\* with that evidence.
C25_SearchFailureIsolated ==
    LET queries == Get(search_data, "search_queries", <<>>)
    IN  /\ Len(search_results) <= Len(queries)
        /\ \A k \in DOMAIN search_results : search_results[k].query = queries[k]
        /\ tavily_api_key =>
              /\ Len(searchLog) >= Len(search_results)
              /\ Len(searchLog) <= Len(queries)
              /\ \A k \in DOMAIN searchLog : searchLog[k] = queries[k]
        /\ (pc \in {"step3", "done"} /\ queries # <<>> /\ Settled("step2")) =>
              Len(search_results) = Len(queries)
        /\ (pc = "done" /\ SomeSearchFailed) =>
              /\ Settled("step3")
              /\ gemini_api_key => Issued("step3")


\* C26: when the search-analysis call fails or gives no function call, the
\* stage yields an empty query list with a reasoning string, and the
\* pipeline goes on: the request is answered with status success and that
\* search_data in the result.
C26_SearchAnalysisFallback ==
    (\E k \in EntriesOf("step2") : ~stageLog[k].ok) =>
        /\ "search_queries" \in DOMAIN search_data
        /\ search_data.search_queries = <<>>
        /\ "search_reasoning" \in DOMAIN search_data
        /\ search_data.search_reasoning # ""
        /\ ~(pc = "done" /\ response.kind = "http" /\ response.code = 200
               /\ response.body.status = "error")
        /\ AnsweredSuccess
        /\ response.body.search_data = search_data


\* ---------------------------------------------------------------------
\* Claims about two concurrent requests (SpecConcurrent)
\* ---------------------------------------------------------------------

\* the envelope a call owes to its own models list, its own probe results
\* and the replies to its own transcription calls
OwnEnvelope(ms, checks, calls) ==
    LET healthy == HealthyModels(ms, checks)
        own == [b \in Range(healthy) |->
                   TranscribeWithService(b, calls[LastPosition(healthy, b)]).value]
    IN  IF healthy = <<>> THEN EmptyEnvelope(ms)
        ELSE [models_requested |-> ms,
              healthy_models |-> healthy,
              successful_models |->
                  Cardinality({b \in DOMAIN own : own[b].status = "success"}),
              results |-> own]

\* C27: with two requests in progress at once, the envelope each of them
\* gets is the one its own models list, its own probe results and the
\* replies to its own calls determine, whatever the other request asked
\* for and was answered; a request that named an unregistered backend gets
\* its ValueError whatever the other one does.
C27_NoInterference ==
    /\ pc = "returned" =>
          /\ ret.kind = "return"
          /\ ret.value = OwnEnvelope(models, health_checks, call)
    /\ other.pc = "returned" =>
          /\ other.ret.kind = "return"
          /\ other.ret.value
                = OwnEnvelope(other.models, other.health_checks, other.call)
    /\ pc = "raised" <=> (pc # "idle" /\ InvalidModels(models) # <<>>)
    /\ other.pc = "raised" <=>
          (other.pc # "idle" /\ InvalidModels(other.models) # <<>>)

\* C27 witness: both requests asked for whisper at the same time; one was
\* answered a transcript and the other an HTTP error, and each envelope
\* holds its own result.
C27_Witness ==
    /\ pc = "returned"
    /\ other.pc = "returned"
    /\ models = <<"whisper">>
    /\ other.models = <<"allosaurus", "whisper">>
    /\ "whisper" \in DOMAIN ret.value.results
    /\ "whisper" \in DOMAIN other.ret.value.results
    /\ ret.value.results["whisper"].status = "success"
    /\ other.ret.value.results["whisper"].status = "error"
    /\ other.ret.value.successful_models = 1


\* ---------------------------------------------------------------------
\* Claims about what each endpoint runs
\* ---------------------------------------------------------------------

ConsensusStages == {"step1", "step2", "step3"}

ParticleStages == {"step4a", "step4b", "step5"}

\* positions of the handler of /transcribe-consensus
ConsensusPositions ==
    {"health", "transcribe", "returned", "step1", "step2", "search", "step3"}

\* a /transcribe-consensus request was accepted
ConsensusRequested == models # <<>>

\* a /transcribe-with-particles request has read its consensus payload
ParticlesRequested == cached_consensus # EmptyDict

\* C28: a /transcribe-consensus request dispatches and then posts
\* generation calls for consensus, search analysis and validation only: it
\* never enters 4A, 4B or 5 and reads no consensus payload; a
\* /transcribe-with-particles request sends no health probe, no
\* transcription call and no web search, never enters dispatch or steps 1
\* to 3, and posts generation calls for 4A, 4B and 5 only.
C28_EndpointScope ==
    /\ pc \in ConsensusPositions => ConsensusRequested
    /\ pc \in ParticleStages => ParticlesRequested
    /\ ~(ConsensusRequested /\ ParticlesRequested)
    /\ ConsensusRequested =>
          /\ Range(genLog) \subseteq ConsensusStages
          /\ \A k \in DOMAIN stageLog : stageLog[k].stage \in ConsensusStages
          /\ pc \notin ParticleStages
          /\ ipa_interpretation = EmptyDict
          /\ particle_data = EmptyDict
          /\ final_data = EmptyDict
    /\ ParticlesRequested =>
          /\ callLog = <<>>
          /\ probe = <<>>
          /\ health_checks = <<>>
          /\ call = <<>>
          /\ ret = NoReturn
          /\ searchLog = <<>>
          /\ search_results = <<>>
          /\ pc \notin ConsensusPositions
          /\ Range(genLog) \subseteq ParticleStages
          /\ \A k \in DOMAIN stageLog : stageLog[k].stage \in ParticleStages

\* C28 witness: a /transcribe-with-particles request, on a payload whose
\* envelope lists two backends, was answered after its three generation
\* calls without a probe, a backend call or a search.
C28_Witness ==
    /\ AnsweredOk
    /\ ParticlesRequested
    /\ "asr_results" \in DOMAIN cached_consensus
    /\ Len(cached_consensus.asr_results.healthy_models) = 2
    /\ genLog = <<"step4a", "step4b", "step5">>
    /\ response.body.stage = "particles_with_accent_finalized"
    /\ callLog = <<>>
    /\ health_checks = <<>>
    /\ searchLog = <<>>


\* ---------------------------------------------------------------------
\* Claims about a rejected upload (SpecUpload)
\* ---------------------------------------------------------------------

\* the backend answered the upload with HTTP 400
Rejected(o) == o.kind = "response" /\ o.status = 400

\* C29: when a backend rejects the uploaded file with HTTP 400, dispatch
\* records an error result for that backend, the results of the other
\* backends are their own, the envelope is returned, and /transcribe
\* answers 200 with the transcripts of the backends that succeeded.
C29_RejectedFileIsBackendError ==
    (\E i \in DOMAIN call : Rejected(call[i])) =>
        /\ \A i \in DOMAIN call :
              Rejected(call[i]) =>
                  /\ task[i].kind = "return"
                  /\ task[i].value.status = "error"
                  /\ task[i].value.model = healthy_models[i]
        /\ \A j \in DOMAIN call :
              (call[j] # Pending /\ ~Rejected(call[j])) =>
                  task[j] = TranscribeWithService(healthy_models[j], call[j])
        /\ pc \in {"returned", "done"} =>
              /\ ret.kind = "return"
              /\ ret.value = OwnEnvelope(models, health_checks, call)
        /\ pc = "done" =>
              /\ response.code = 200
              /\ DOMAIN response.body =
                    {b \in DOMAIN ret.value.results :
                        ret.value.results[b].status = "success"}

\* C29 witness: a.ogg was sent to wav2vec and whisper; wav2vec answered
\* 400 and whisper was not reached in time; each has its own error result
\* and the request was answered 200.
C29_Witness ==
    /\ pc = "done"
    /\ request.filename = <<"a", ".", "o", "g", "g">>
    /\ healthy_models = <<"wav2vec", "whisper">>
    /\ Rejected(call[1])
    /\ call[2] = [kind |-> "timeout"]
    /\ ret.value.results["wav2vec"].error
          = "HTTP 400: Unsupported audio format. Allowed: .mp3, .wav, .flac, .m4a"
    /\ ret.value.results["whisper"].error = "Request timeout after 120 seconds"
    /\ response = Http(200, EmptyDict)


\* ---------------------------------------------------------------------
\* Claims about the counts of the envelope (SpecDispatch)
\* ---------------------------------------------------------------------

\* C30: in every envelope transcribe_parallel returns, successful_models is
\* the number of entries of results whose status is success, and lies
\* between 0 and the number of healthy backends.
C30_SuccessfulModelsCount ==
    ret.kind = "return" =>
        LET env == ret.value
        IN  /\ env.successful_models =
                  Cardinality({b \in DOMAIN env.results :
                                  env.results[b].status = "success"})
            /\ 0 <= env.successful_models
            /\ env.successful_models <= Cardinality(Range(env.healthy_models))
            /\ env.successful_models <= Len(env.healthy_models)

\* C30 witness: of two healthy backends one answered a transcript and the
\* other an HTTP error: successful_models is 1.
C30_Witness ==
    /\ ret.kind = "return"
    /\ ret.value.healthy_models = <<"whisper", "allosaurus">>
    /\ ret.value.results["whisper"].status = "error"
    /\ ret.value.results["allosaurus"].status = "success"
    /\ ret.value.successful_models = 1


\* ---------------------------------------------------------------------
\* Claims about the answer of POST /transcribe (SpecDispatch)
\* ---------------------------------------------------------------------

\* C31: the answer of POST /transcribe has exactly one entry per backend
\* whose dispatch result has status success, mapped to that backend's
\* transcript; a backend with an error result or one that was unhealthy is
\* absent.
C31_SimplifiedView ==
    (pc = "done" /\ Returned) =>
        /\ response.kind = "http"
        /\ response.code = 200
        /\ DOMAIN response.body =
              {b \in DOMAIN ret.value.results :
                  ret.value.results[b].status = "success"}
        /\ \A b \in DOMAIN response.body :
              /\ response.body[b] = ret.value.results[b].transcription
              /\ HealthyEntries(b) # {}
        /\ \A b \in Range(models) :
              HealthyEntries(b) = {} => b \notin DOMAIN response.body

\* C31 witness: whisper answered a transcript, allosaurus an HTTP error; the
\* answer holds whisper's transcript only.
C31_Witness ==
    /\ pc = "done"
    /\ Returned
    /\ healthy_models = <<"whisper", "allosaurus">>
    /\ ret.value.results["allosaurus"].status = "error"
    /\ response = Http(200, [whisper |-> "hello word"])


\* ---------------------------------------------------------------------
\* Claims about WhisperTranscriber.transcribe (SpecWhisper)
\* ---------------------------------------------------------------------

\* the file name ends in .mp3 or .wav, in any letter case
EndsInMp3OrWav(name) ==
    \E ext \in {<<".", "m", "p", "3">>, <<".", "w", "a", "v">>} :
        /\ Len(name) >= 4
        /\ \A k \in 1..4 : Lower(name[Len(name) - 4 + k]) = ext[k]

\* C32: transcribe never raises; for a file name that does not end in .mp3
\* or .wav it returns the fixed unsupported-format message without running
\* the model; an exception of the recognition comes back as a string that
\* starts with "Error during transcription"; a recognised text is returned
\* as it is.
C32_WhisperNeverRaises ==
    transcriber.given =>
        /\ transcriber.result.kind # "raise"
        /\ transcriber.invoked <= 1
        /\ (transcriber.audio_file.str
               /\ ~EndsInMp3OrWav(transcriber.audio_file.chars)) =>
              /\ transcriber.invoked = 0
              /\ transcriber.pc = "returned" =>
                    transcriber.result.value =
                      <<"Unsupported file format. Please use MP3 or WAV files.">>
        /\ (transcriber.pc = "returned" /\ transcriber.invoked = 1) =>
              IF transcriber.model.kind = "raise"
              THEN /\ transcriber.result.value[1] = "Error during transcription: "
                   /\ transcriber.result.value[2] = transcriber.model.exc
              ELSE IF "text" \in DOMAIN transcriber.model.value
              THEN transcriber.result.value = <<transcriber.model.value.text>>
              ELSE transcriber.result.value[1] = "Error during transcription: "

\* C32 witness: a.WAV was given to the model, the model raised, and the
\* error string came back.
C32_Witness ==
    /\ transcriber.given
    /\ transcriber.pc = "returned"
    /\ transcriber.audio_file = [str |-> TRUE, chars |-> <<"a", ".", "W", "A", "V">>]
    /\ transcriber.invoked = 1
    /\ transcriber.result =
          [kind |-> "return",
           value |-> <<"Error during transcription: ", "CUDA out of memory">>]


\* ---------------------------------------------------------------------
\* Claims about GET /health (SpecHealth)
\* ---------------------------------------------------------------------

\* C33: GET /health probes every registry backend, reports one boolean per
\* backend (true exactly for a probe answered 200), healthy_services equal
\* to the number of backends reported healthy, total_services equal to the
\* registry size, and status "healthy" if and only if at least one backend
\* is healthy.
C33_HealthReport ==
    (pc = "done" /\ health_results # EmptyDict) =>
        LET body == response.body
            healthy == {b \in DOMAIN body.services : body.services[b]}
        IN  /\ response.code = 200
            /\ Len(probe) = Len(ModelServiceKeys)
            /\ DOMAIN body.services = DOMAIN model_services
            /\ \A i \in DOMAIN ModelServiceKeys :
                  body.services[ModelServiceKeys[i]]
                      = (probe[i].kind = "response" /\ probe[i].status = 200)
            /\ body.healthy_services = Cardinality(healthy)
            /\ body.total_services = Cardinality(DOMAIN model_services)
            /\ body.status \in {"healthy", "unhealthy"}
            /\ body.status = "healthy" <=> healthy # {}

\* C33 witness: only vosk answered its probe with 200; the report says
\* healthy with one healthy service of six.
C33_Witness ==
    /\ pc = "done"
    /\ health_results # EmptyDict
    /\ response.body.status = "healthy"
    /\ response.body.healthy_services = 1
    /\ response.body.total_services = 6
    /\ response.body.services["vosk"]
    /\ probe[1] = [kind |-> "timeout"]
    /\ probe[2] = [kind |-> "response", status |-> 503]


\* ---------------------------------------------------------------------
\* Claims about the validation of the requested names (SpecDispatch)
\* ---------------------------------------------------------------------

\* some requested name is not a key of the registry
NamesUnregistered ==
    \E i \in DOMAIN models : models[i] \notin DOMAIN model_services

\* C34: a dispatch request naming a backend that is not in the registry
\* is rejected with ValueError, which POST /transcribe answers as an error
\* response, and no health probe and no transcription call is ever issued
\* for it, not even to the registered backends of the same request.
C34_InvalidRejectedFirst ==
    (pc # "idle" /\ NamesUnregistered) =>
        /\ pc \in {"raised", "done"}
        /\ ret = [kind |-> "raise", exc |-> "ValueError"]
        /\ probe = <<>>
        /\ health_checks = <<>>
        /\ call = <<>>
        /\ task = <<>>
        /\ callLog = <<>>
        /\ pc = "done" => (response.kind = "http" /\ response.code = 500)

\* C34 witness: whisper together with an unregistered name; the request
\* was answered 500 and whisper was neither probed nor called.
C34_Witness ==
    /\ pc = "done"
    /\ models = <<"whisper", "nosuch">>
    /\ ret = [kind |-> "raise", exc |-> "ValueError"]
    /\ response.code = 500
    /\ health_checks = <<>>
    /\ callLog = <<>>


\* ---------------------------------------------------------------------
\* Claims about the order of probes and calls (SpecDispatch)
\* ---------------------------------------------------------------------

\* a transcription call of the request is in flight
CallInFlight == \E i \in DOMAIN call : call[i] = Pending

\* C35: within one dispatch every health probe has settled before the
\* first transcription call is issued: while a transcription call is in
\* flight, and from the first issued call on, no probe of the request is
\* pending and the probe gather holds one settled value per requested name.
C35_ProbesBeforeCalls ==
    (CallInFlight \/ callLog # <<>> \/ pc = "transcribe") =>
        /\ Len(health_checks) = Len(models)
        /\ \A i \in DOMAIN health_checks : health_checks[i] # Pending
        /\ \A i \in DOMAIN probe : probe[i] # Pending

\* C35 witness: two names were requested, the probe of the first failed
\* and the probe of the second passed, and the one call is in flight.
C35_Witness ==
    /\ pc = "transcribe"
    /\ Len(models) = 2
    /\ CallInFlight
    /\ Len(call) = 1
    /\ health_checks[1] = [kind |-> "return", value |-> FALSE]
    /\ health_checks[2] = [kind |-> "return", value |-> TRUE]


\* ---------------------------------------------------------------------
\* Claims about the readiness of a backend (SpecReadiness)
\* ---------------------------------------------------------------------

\* C36: the readiness flag of a service only goes from not-ready to ready;
\* a probe the service answers gets 200 when the flag is set and 503 when
\* it is not; and no transcription call sent to a backend that passed its
\* probe is answered with the 503 "model not ready" response.
C36_ReadyStaysReady ==
    [][/\ \A b \in DOMAIN model_ready : model_ready[b] => model_ready'[b]
       /\ \A i \in DOMAIN probe' :
             (/\ i \in DOMAIN probe
              /\ probe[i] = Pending
              /\ probe'[i].kind = "response")
                 => probe'[i].status
                       = (IF model_ready[models[i]] THEN 200 ELSE 503)
       /\ \A i \in DOMAIN call' :
             call'[i] # ModelNotReady(healthy_models'[i])]_vars

\* C36 witness: vosk was probed before its model was loaded and answered
\* 503, whisper passed its probe and its call was answered 200; vosk became
\* ready only afterwards.
C36_Witness ==
    /\ pc = "done"
    /\ models = <<"vosk", "whisper">>
    /\ health_checks = <<[kind |-> "return", value |-> FALSE],
                         [kind |-> "return", value |-> TRUE]>>
    /\ healthy_models = <<"whisper">>
    /\ call[1].kind = "response"
    /\ call[1].status = 200
    /\ model_ready["whisper"]
    /\ model_ready["vosk"]


\* ---------------------------------------------------------------------
\* Claims about the form fields of /transcribe-with-particles
\* (SpecParticles)
\* ---------------------------------------------------------------------

\* the request was answered and no cached result had been parsed: its
\* consensus_data was not JSON
ConsensusDataRejected == pc = "done" /\ cached_consensus = EmptyDict

\* C37: a request whose consensus_data is not valid JSON is answered with
\* HTTP status 400 and no generation call is issued.
C37_InvalidConsensusIs400 ==
    ConsensusDataRejected =>
        /\ response.kind = "http"
        /\ response.code = 400
        /\ genLog = <<>>


\* human_particles forms that are not JSON or parse to {}
UnusableHumanParticles ==
    {hf \in HumanParticlesForms :
        hf.given /\ (~hf.valid \/ hf.value = EmptyDict)}

\* C38: a request whose human_particles is not valid JSON, or parses to
\* an empty object, is read exactly as the same request without
\* human_particles: it is not answered at that point (no failure, no
\* human-selected answer) and goes to step 4A; and a request answered 200
\* without a usable selection carries the finalized stage after steps 4A,
\* 4B and 5.
C38_UnusableOverrideIsAbsent ==
    [][/\ \A f \in ConsensusDataForms, ah \in AccentHints,
            hf \in UnusableHumanParticles :
             (ParticlesRequest(f, hf, ah) /\ JsonLoads(f).kind = "return") =>
                 /\ pc' = "step4a"
                 /\ response' = NoReturn
                 /\ genLog' = <<>>
                 /\ ~HumanParticlesGiven(parsed_human_particles')
                 /\ cached_consensus' = JsonLoads(f).value
       /\ (pc' = "done" /\ response'.code = 200
              /\ ~HumanParticlesGiven(parsed_human_particles')) =>
             /\ response'.body.stage = "particles_with_accent_finalized"
             /\ \A st \in ParticleStages :
                   \E k \in DOMAIN stageLog' : stageLog'[k].stage = st]_vars

\* C38 witness: human_particles was {}; the request went through 4A, 4B
\* and 5 with the generation service answering, and got the finalized
\* answer.
C38_Witness ==
    /\ AnsweredOk
    /\ parsed_human_particles = [given |-> TRUE, value |-> EmptyDict]
    /\ response.body.stage = "particles_with_accent_finalized"
    /\ genLog = <<"step4a", "step4b", "step5">>
    /\ Len(stageLog) = 3


\* ---------------------------------------------------------------------
\* Claims about the result of the consensus pipeline (SpecConsensus)
\* ---------------------------------------------------------------------

\* the dict execute_consensus_pipeline returned for the answered request
PipelineResult ==
    BuildResult(consensus_data, search_data, validated_data, ret.value).value

\* C39: in a successful result of the consensus pipeline, `alternatives`
\* has exactly the backends whose dispatch status is success, allosaurus
\* apart, each with its transcript; option A carries the consensus
\* transcript and option B the validated transcript; the two are equal
\* when no search query was produced; and the endpoint passes alternatives
\* on as they are (and the two options too, when no ground truth is given).
C39_AlternativesAndOptions ==
    AnsweredSuccess =>
        LET result == PipelineResult
            env == ret.value
        IN  /\ DOMAIN result.alternatives = Successful(env) \ {"allosaurus"}
            /\ \A b \in DOMAIN result.alternatives :
                  /\ b \in Range(callLog)
                  /\ result.alternatives[b] = env.results[b].transcription
            /\ result.pronoun_consolidation.option_a.transcription
                  = consensus_data.consensus_transcription
            /\ result.pronoun_consolidation.option_b.transcription
                  = validated_data.final_consensus
            /\ NoQueriesYielded =>
                  result.pronoun_consolidation.option_a.transcription
                      = result.pronoun_consolidation.option_b.transcription
            /\ response.body.alternatives = result.alternatives
            /\ ~(ground_truth.given /\ ground_truth.text # "") =>
                  response.body.pronoun_consolidation
                      = result.pronoun_consolidation

\* C39 witness: whisper and allosaurus both succeeded, queries were
\* produced and the validation corrected the consensus transcript: the
\* alternatives hold whisper only and the two options differ.
C39_Witness ==
    /\ AnsweredSuccess
    /\ ~ground_truth.given
    /\ Successful(ret.value) = {"whisper", "allosaurus"}
    /\ DOMAIN response.body.alternatives = {"whisper"}
    /\ response.body.alternatives["whisper"]
          = ret.value.results["whisper"].transcription
    /\ response.body.pronoun_consolidation.option_a.transcription
          # response.body.pronoun_consolidation.option_b.transcription

=============================================================================
